---- MODULE Spec2Model ----
(***************************************************************************)
(* Model of the Windows build orchestrator of pake:                        *)
(*   helpers/rust.ts        (src/unnamed/part_000)  toolchain probes       *)
(*   builders/common.ts     mergeTauriConfig                               *)
(*   builders/WinBulider.ts (src/unnamed/part_001, lines 469-1022)         *)
(*                                                  WinBuilder.prepare and *)
(*                                                  WinBuilder.build       *)
(*                                                                         *)
(* Strings that the code converts or inspects (names, environment values,  *)
(* file names, extensions) are sequences of UTF-16 code units, so that     *)
(* toLowerCase, trim, endsWith, includes and the regular expressions are   *)
(* computed, not assumed.  Enumerated values of the program (installer     *)
(* targets, event kinds, program positions) are TLA+ strings.              *)
(***************************************************************************)
EXTENDS Integers, Sequences, FiniteSets, TLC

VARIABLES
    host,       \* process.platform: "win32" | "linux" | "darwin"
    tools,      \* what is installed on the host (executables on PATH, dirs, rustup targets)
    envTarget,  \* process.env.PAKE_TARGET_PLATFORM
    envInst,    \* process.env.PAKE_WINDOWS_INSTALLER
    envForce,   \* process.env.PAKE_FORCE_MSI
    conf,       \* the module-level descriptor object tauriConf (shared between calls)
    disk,       \* the files the orchestrator reads and writes
    opts,       \* options of the running build() call
    loc,        \* locals of the running call (hasError, targetBundle, icon32ToCopy, ...)
    call,       \* the builder method running: "prepare" | "build"
    pc,         \* position of the process
    exit,       \* how the process / call ended
    trace       \* observable events of the running call, in order

vars == <<host, tools, envTarget, envInst, envForce, conf, disk, opts, loc, call, pc, exit,
          trace>>

----------------------------------------------------------------------------
(* Strings as sequences of code units *)

\* an absent value (undefined environment variable, missing property)
Undefined == <<0 - 1>>

S_empty == <<>>
S_msi   == <<109, 115, 105>>
S_MSI   == <<77, 83, 73>>
S_nsis  == <<110, 115, 105, 115>>
S_one   == <<49>>
S_true  == <<116, 114, 117, 101>>
S_win   == <<119, 105, 110>>
S_icon  == <<105, 99, 111, 110>>
S_ico   == <<46, 105, 99, 111>>
S_ICO   == <<46, 73, 67, 79>>
S_png   == <<46, 112, 110, 103>>
S_icns  == <<46, 105, 99, 110, 115>>
S_exe   == <<46, 101, 120, 101>>
S_dmsi  == <<46, 109, 115, 105>>
S_setup == <<115, 101, 116, 117, 112>>
S_enUS  == <<101, 110, 45, 85, 83>>
S_zhCN  == <<122, 104, 45, 67, 78>>
S_x64   == <<120, 54, 52>>
S_us    == <<95>>
S_version == <<49, 46, 48, 46, 48>>
S_dashSetupExe == <<45>> \o S_setup \o S_exe
S_uninstallExe == <<117, 110, 105, 110, 115, 116, 97, 108, 108>> \o S_exe
S_SetupEXE == <<83, 101, 116, 117, 112, 46, 69, 88, 69>>
S_wixobj == <<109, 97, 105, 110, 46, 119, 105, 120, 111, 98, 106>>

\* String.prototype.toLowerCase on the code units the model uses
ToLowerUnit(c) == IF c >= 65 /\ c <= 90 THEN c + 32 ELSE c

ToLowerCase(s) == [i \in 1..Len(s) |-> ToLowerUnit(s[i])]

\* white space removed by String.prototype.trim (the units the model uses)
IsTrimSpace(c) == c \in {9, 10, 13, 32, 160, 12288}

RECURSIVE TrimLeft(_)
TrimLeft(s) == IF s # <<>> /\ IsTrimSpace(Head(s)) THEN TrimLeft(Tail(s)) ELSE s

RECURSIVE TrimRight(_)
TrimRight(s) ==
    IF s # <<>> /\ IsTrimSpace(s[Len(s)]) THEN TrimRight(SubSeq(s, 1, Len(s) - 1)) ELSE s

Trim(s) == TrimRight(TrimLeft(s))

EndsWith(s, suf) ==
    /\ Len(s) >= Len(suf)
    /\ SubSeq(s, Len(s) - Len(suf) + 1, Len(s)) = suf

Includes(s, sub) ==
    \E i \in 1..(Len(s) - Len(sub) + 1) : SubSeq(s, i, i + Len(sub) - 1) = sub

\* /[^\x00-\x7F]/.test(name)
ContainsNonAscii(s) == \E i \in 1..Len(s) : s[i] > 127

----------------------------------------------------------------------------
(* helpers/rust.ts: the probes.  t is the set of things present on the host *)

IsWin(h) == h = "win32"

checkRustInstalled(t) == "rustc" \in t

checkMSVCInstalled(isWin, t) ==
    IF ~isWin THEN TRUE
    ELSE LET clCheck   == "cl.exe" \in t
             linkCheck == "link.exe" \in t
         IN  IF ~clCheck /\ ~linkCheck THEN "vsdir" \in t
             ELSE clCheck \/ linkCheck

checkWiXInstalled(isWin, t) ==
    IF ~isWin THEN FALSE
    ELSE LET candleCheck == "candle.exe" \in t
             lightCheck  == "light.exe" \in t
         IN  IF ~candleCheck /\ ~lightCheck THEN "wixdir" \in t
             ELSE candleCheck \/ lightCheck

checkMinGWInstalled(isWin, t) ==
    IF isWin THEN FALSE
    ELSE LET x64Check == "x86_64-w64-mingw32-gcc" \in t
             x86Check == "i686-w64-mingw32-gcc" \in t
         IN  x64Check \/ x86Check

checkRustWindowsGnuTarget(t) ==
    IF "rustup" \notin t THEN FALSE
    ELSE "x86_64-pc-windows-gnu" \in t \/ "i686-pc-windows-gnu" \in t

----------------------------------------------------------------------------
(* Bounds and input domains *)

\* longest application name the build is tried with
MaxNameLen == 1

\* code units names are made of: a, A, space, and a CJK ideograph
NameUnits == {97, 65, 32, 20013}

RECURSIVE SeqsUpTo(_, _)
SeqsUpTo(S, n) ==
    IF n = 0 THEN {<<>>}
    ELSE LET shorter == SeqsUpTo(S, n - 1)
         IN  shorter \cup {Append(s, c) : s \in {x \in shorter : Len(x) = n - 1}, c \in S}

\* two longer names: ASCII before a non-ASCII unit, upper case before lower case
LongerNames == {<<97, 20013>>, <<65, 97>>}

Names == SeqsUpTo(NameUnits, MaxNameLen) \cup LongerNames

Hosts == {"win32", "linux", "darwin"}

\* what may be present on a host of each kind
HostItems(h) ==
    IF IsWin(h) THEN {"rustc", "cl.exe", "candle.exe"}
    ELSE {"rustc", "rustup", "x86_64-pc-windows-gnu", "x86_64-w64-mingw32-gcc"}

\* <<PAKE_WINDOWS_INSTALLER, PAKE_FORCE_MSI>> as set in the environment
InstallerEnvs ==
    { <<Undefined, Undefined>>, <<S_empty, S_one>>, <<S_nsis, Undefined>>,
      <<S_msi, Undefined>>, <<S_msi, S_one>>, <<S_msi, S_true>>,
      <<S_MSI, Undefined>>, <<S_MSI, S_one>> }

\* options.icon as given to build(): whether the file exists, its extension,
\* and whether it lies in src-tauri/png
IconOptions ==
    { [iconExists |-> FALSE, iconExt |-> S_ico, iconDir |-> "elsewhere"],
      [iconExists |-> TRUE, iconExt |-> S_ICO, iconDir |-> "elsewhere"],
      [iconExists |-> TRUE, iconExt |-> S_png, iconDir |-> "elsewhere"] }

BuildOptions ==
    { [name |-> n, iconExists |-> i.iconExists, iconExt |-> i.iconExt, iconDir |-> i.iconDir] :
        n \in Names, i \in IconOptions }

Has(v) == [has |-> TRUE, val |-> v]
None == [has |-> FALSE, val |-> <<>>]

\* the wix section of the descriptor: its language list may be missing
WixEmpty == [language |-> None]
WixEnUS  == [language |-> Has(<<S_enUS>>)]

\* tauriConf.js as imported: the fields build() and mergeTauriConfig touch
BaseConf(targets, wix) ==
    [ productName |-> <<>>,
      targets     |-> targets,
      hasWindows  |-> wix.has,
      wix         |-> wix,
      icon        |-> <<>>,
      resources   |-> <<>> ]

BaseConfs ==
    { BaseConf(None, None),
      BaseConf(Has(<<>>), Has(WixEmpty)),
      BaseConf(Has(<<"msi", "updater">>), Has(WixEnUS)),
      BaseConf(Has(<<"nsis">>), None) }

NoFile == [has |-> FALSE, val |-> <<>>]

\* the default icons shipped in src-tauri/png
DefaultIcons == {[abs |-> FALSE, dir |-> "png", base |-> S_icon, tag |-> "32"],
                 [abs |-> FALSE, dir |-> "png", base |-> S_icon, tag |-> "256"]}

\* the disk when the process starts
InitDisk ==
    [ confJson |-> NoFile,       \* src-tauri/tauri.conf.json
      platConf |-> [p \in {"windows", "macos", "linux"} |-> NoFile],
      cargo    |-> FALSE,        \* src-tauri/.cargo/config.toml
      png      |-> DefaultIcons, \* icon files in src-tauri/png
      outPng   |-> {},           \* icon files in target/<triple>/release/png
      msiDir   |-> NoFile,       \* listing of target/release/bundle/msi
      nsisDir  |-> NoFile,       \* listing of target/release/bundle/nsis
      crossOut |-> {},           \* which cross candidates exist
      dist     |-> {},           \* files copied to the caller's working directory
      torn     |-> {} ]          \* configuration files left as a mix of two writes

NoOpts == [name |-> <<>>, iconExists |-> FALSE, iconExt |-> <<>>, iconDir |-> "elsewhere"]

NoLoc ==
    [ hasError        |-> FALSE,     \* prepare: a required tool is missing
      targetBundle    |-> "none",    \* build: the installer format being built
      containsNonAscii |-> FALSE,
      iconsToCopy     |-> {},        \* build, cross path: icon32ToCopy, icon256ToCopy
      swallowed       |-> {} ]       \* build: the icon steps whose failure was caught

Running == [kind |-> "running", code |-> 0]
Exited(c) == [kind |-> "exit", code |-> c]
Thrown == [kind |-> "throw", code |-> 0]
Returned == [kind |-> "return", code |-> 0]

Ev(k, a) == [k |-> k, a |-> a]

----------------------------------------------------------------------------
(* builders/common.ts: mergeTauriConfig *)

IsDigit(c) == c >= 48 /\ c <= 57
IsLower(c) == c >= 97 /\ c <= 122
IsDash(c)  == c = 45

\* /[0-9]*[a-z]+[0-9]*\-?[0-9]*[a-z]*[0-9]*\-?[0-9]*[a-z]*[0-9]*/ as its
\* sequence of quantified classes: cls, least and most repetitions (-1: no limit)
NameRegex ==
    << <<"d", 0, -1>>, <<"l", 1, -1>>, <<"d", 0, -1>>, <<"-", 0, 1>>,
       <<"d", 0, -1>>, <<"l", 0, -1>>, <<"d", 0, -1>>, <<"-", 0, 1>>,
       <<"d", 0, -1>>, <<"l", 0, -1>>, <<"d", 0, -1>> >>

InClass(cls, c) ==
    IF cls = "d" THEN IsDigit(c) ELSE IF cls = "l" THEN IsLower(c) ELSE IsDash(c)

\* how many units from position pos on are in the class, at most `most`
RECURSIVE RunLen(_, _, _, _)
RunLen(s, pos, cls, most) ==
    IF pos > Len(s) \/ most = 0 \/ ~InClass(cls, s[pos]) THEN 0
    ELSE 1 + RunLen(s, pos + 1, cls, IF most < 0 THEN most ELSE most - 1)

\* the backtracking matcher: the end position (exclusive) of the first match of
\* the regex from stage i on at pos, greedy quantifiers first, or 0 if none
RECURSIVE MatchFrom(_, _, _)
RECURSIVE TryCount(_, _, _, _)
MatchFrom(s, pos, i) ==
    IF i > Len(NameRegex) THEN pos
    ELSE TryCount(s, pos, i, RunLen(s, pos, NameRegex[i][1], NameRegex[i][3]))

TryCount(s, pos, i, k) ==
    IF k < NameRegex[i][2] THEN 0
    ELSE LET r == MatchFrom(s, pos + k, i + 1)
         IN  IF r # 0 THEN r ELSE TryCount(s, pos, i, k - 1)

\* reg.exec(name): <<index, length>> of the leftmost match, <<0, 0>> if none
RECURSIVE ExecFrom(_, _)
ExecFrom(s, start) ==
    IF start > Len(s) + 1 THEN <<0, 0>>
    ELSE LET r == MatchFrom(s, start, 1)
         IN  IF r # 0 THEN <<start, r - start>> ELSE ExecFrom(s, start + 1)

RegTest(s) == ExecFrom(s, 1)[1] # 0

\* the Linux check of line 44: the name passes iff the match covers it
LinuxNameOk(name) == RegTest(name) /\ ExecFrom(name, 1)[2] = Len(name)

\* the Windows check of line 53
WinNameOk(name) == ~(name = <<>> \/ Len(Trim(name)) = 0)

NameOk(h, name) ==
    IF h = "linux" THEN LinuxNameOk(name)
    ELSE IF h = "win32" THEN WinNameOk(name)
    ELSE TRUE

\* line 72: the cross-compilation flag, or a non-Windows host whose descriptor
\* has a target list without msi
IsCrossCompilingWindows(h, eTarget, c) ==
    \/ eTarget = S_win
    \/ (h # "win32" /\ c.targets.has /\ ~(\E i \in 1..Len(c.targets.val) : c.targets.val[i] = "msi"))

\* an icon reference of the descriptor or an icon file
IconRel(base, tag) == [abs |-> FALSE, dir |-> "png", base |-> base, tag |-> tag]
IconUser(dir) == [abs |-> TRUE, dir |-> dir, base |-> <<>>, tag |-> "user"]

\* lines 155-162: an absolute path under src-tauri/png becomes relative where
\* path.relative yields forward slashes
RelativizeIcon(h, ic) ==
    IF ic.abs /\ ic.dir = "png" /\ ~IsWin(h) THEN [ic EXCEPT !.abs = FALSE] ELSE ic

ConfigPathFor(h, cross) ==
    IF h = "win32" THEN "windows"
    ELSE IF cross THEN "windows"
    ELSE IF h = "darwin" THEN "macos" ELSE "linux"

\* lines 193-203: the wix section and its default language list
EnsureWix(c) ==
    LET w0 == IF c.wix.has THEN c.wix.val ELSE WixEmpty
        w1 == IF w0.language.has THEN w0
              ELSE [language |-> Has(<<S_zhCN, S_enUS>>)]
    IN  [c EXCEPT !.hasWindows = TRUE, !.wix = Has(w1)]

(* I/O outcomes of one mergeTauriConfig call:
   each copy has its own catch and fails or succeeds by itself; the second
   write is attempted only after the first one succeeded *)
MergeIos ==
    { io \in [copy32 : BOOLEAN, copy256 : BOOLEAN,
              writePlat : BOOLEAN, writeConf : BOOLEAN] :
        io.writePlat \/ io.writeConf }

\* the part of the descriptor written to the platform config file (tauri.bundle)
BundleOf(c) ==
    [targets |-> c.targets, hasWindows |-> c.hasWindows, wix |-> c.wix,
     icon |-> c.icon, resources |-> c.resources]

\* lines 118-125: options.icon does not exist, the build is of the Windows
\* family, and both default icons are in src-tauri/png
AdoptDefault(iconExists, winFamily, png) ==
    /\ ~iconExists
    /\ winFamily
    /\ IconRel(S_icon, "32") \in png
    /\ IconRel(S_icon, "256") \in png

(* mergeTauriConfig, lines 63-219: what follows the name check; the result of
   the call as [exit, conf, disk, events] *)
MergeBody(h, eTarget, o, c, d, io) ==
    LET name  == o.name
        lower == ToLowerCase(name)
        c1    == [c EXCEPT !.productName = name]
        cross == IsCrossCompilingWindows(h, eTarget, c1)
        winFamily == h = "win32" \/ cross
        ext   == ToLowerCase(o.iconExt)
        appIcons == <<IconRel(lower, "256"), IconRel(lower, "32")>>
        copied == (IF io.copy32 THEN {IconRel(lower, "32")} ELSE {})
                  \cup (IF io.copy256 THEN {IconRel(lower, "256")} ELSE {})
        copyEvents == (IF io.copy32 THEN <<Ev("write", "icon")>> ELSE <<>>)
                      \o (IF io.copy256 THEN <<Ev("write", "icon")>> ELSE <<>>)
        \* lines 75-116: the user's icon exists
        adoptIco == o.iconExists /\ winFamily /\ ext = S_ico
        update == /\ ~(winFamily /\ ext # S_ico)
                  /\ ~(h = "linux" /\ ~cross /\ ext # S_png)
                  /\ ~(h = "darwin" /\ ext # S_icns /\ ~cross)
        \* lines 117-144: it does not
        adoptDefault == AdoptDefault(o.iconExists, winFamily, d.png)
        c2 == IF adoptIco \/ adoptDefault
              THEN [c1 EXCEPT !.icon = appIcons, !.resources = <<IconRel(lower, "32")>>]
              ELSE c1
        c3 == IF o.iconExists /\ update /\ ~cross
              THEN [c2 EXCEPT !.icon = <<IconUser(o.iconDir)>>]
              ELSE c2
        iconEvents ==
            IF o.iconExists
            THEN (IF adoptIco THEN copyEvents ELSE <<>>)
                 \o (IF winFamily /\ ext # S_ico THEN <<Ev("warn", "icon-not-ico")>> ELSE <<>>)
                 \o (IF h = "linux" /\ ~cross /\ ext # S_png
                     THEN <<Ev("warn", "icon-not-png")>> ELSE <<>>)
                 \o (IF h = "darwin" /\ ext # S_icns /\ ~cross
                     THEN <<Ev("warn", "icon-not-icns")>> ELSE <<>>)
                 \o (IF ~update THEN <<Ev("warn", "icon-unchanged")>> ELSE <<>>)
            ELSE IF winFamily
                 THEN (IF adoptDefault THEN copyEvents \o <<Ev("info", "default-icon")>>
                       ELSE <<Ev("warn", "default-icon-missing")>>)
                 ELSE <<Ev("warn", "icon-path-missing")>>
        d1 == IF adoptIco \/ adoptDefault THEN [d EXCEPT !.png = @ \cup copied] ELSE d
        \* lines 146-164
        c4 == IF winFamily
              THEN [c3 EXCEPT !.icon = [i \in 1..Len(c3.icon) |-> RelativizeIcon(h, c3.icon[i])]]
              ELSE c3
        configPath == ConfigPathFor(h, cross)
        c5 == IF winFamily THEN EnsureWix(c4) ELSE c4
        ev0 == IF h = "win32" THEN <<Ev("info", "productName")>> ELSE <<>>
    IN  IF ~io.writePlat
        THEN [exit |-> Thrown, conf |-> c5, disk |-> d1, events |-> ev0 \o iconEvents]
        ELSE LET d2 == [d1 EXCEPT !.platConf[configPath] = Has(BundleOf(c5))]
                 ev2 == ev0 \o iconEvents \o <<Ev("write", configPath)>>
             IN  IF ~io.writeConf
                 THEN [exit |-> Thrown, conf |-> c5, disk |-> d2, events |-> ev2]
                 ELSE [exit |-> Running, conf |-> c5,
                       disk |-> [d2 EXCEPT !.confJson = Has(c5)],
                       events |-> ev2 \o <<Ev("write", "tauri.conf.json")>>]

\* mutant: the name is checked after the descriptor has been persisted
mergeTauriConfig_LateCheck(h, eTarget, o, c, d, io) ==
    LET r == MergeBody(h, eTarget, o, c, d, io)
    IN  IF ~NameOk(h, o.name)
        THEN [r EXCEPT !.exit = Exited(0), !.events = @ \o <<Ev("error", "name-illegal")>>]
        ELSE r

\* mutant: a failed write of a configuration file is swallowed
mergeTauriConfig_WriteSwallowed(h, eTarget, o, c, d, io) ==
    LET r == IF ~NameOk(h, o.name)
             THEN [exit |-> Exited(0), conf |-> c, disk |-> d,
                   events |-> <<Ev("error", "name-illegal")>>]
             ELSE MergeBody(h, eTarget, o, c, d, io)
    IN  IF r.exit = Thrown THEN [r EXCEPT !.exit = Running] ELSE r

(* mergeTauriConfig(url, options, tauriConf): an illegal name ends the process
   with process.exit(), whose status is 0, before anything else is done *)
mergeTauriConfig(h, eTarget, o, c, d, io) ==
    IF ~NameOk(h, o.name)
    THEN [exit |-> Exited(0), conf |-> c, disk |-> d,
          events |-> <<Ev("error", "name-illegal")>>]
    ELSE MergeBody(h, eTarget, o, c, d, io)

----------------------------------------------------------------------------
(* The process: prepare() and then build(), as the CLI drives the builder *)

Init ==
    /\ host \in Hosts
    /\ tools \in SUBSET HostItems(host)
    /\ envTarget = Undefined
    /\ \E e \in (IF IsWin(host) THEN InstallerEnvs ELSE {<<Undefined, Undefined>>}) :
          envInst = e[1] /\ envForce = e[2]
    /\ conf \in BaseConfs
    /\ disk = InitDisk
    /\ opts = NoOpts
    /\ loc = NoLoc
    /\ call = "prepare"
    /\ pc = "prep_rust"
    /\ exit = Running
    /\ trace = <<>>

\* installRust, line 17: the install command of the platform
installRustCommand(isWin) ==
    IF isWin THEN "winget install --id Rustlang.Rustup"
    ELSE "curl --proto '=https' --tlsv1.2 -sSf https://sh.rustup.rs | sh -s -- -y"

\* installRust, lines 16-24: what the one call of shellExec leaves in the trace
installRustEvents(isWin, ok) ==
    <<Ev("spawn", installRustCommand(isWin))>>
        \o (IF ok THEN <<>> ELSE <<Ev("error", "install-failed")>>)

\* mutant: a failed installation ends the process with status 0
installRustExit_Zero(ok) == IF ok THEN Running ELSE Exited(0)

(* helpers/rust.ts installRust: one install command; a failure ends the process *)
installRustExit(ok) == IF ok THEN Running ELSE Exited(1)

\* what the install command leaves on the host: the new rustc may or may not
\* be visible to this process
installRustTools(t, visible) == IF visible THEN t \cup {"rustc", "rustup"} ELSE t

\* mutant: a refusal is not recorded as an error
PrepRust_RefusalIgnored ==
    /\ pc = "prep_rust"
    /\ exit = Running
    /\ IF checkRustInstalled(tools)
       THEN trace' = trace \o <<Ev("probe", "rust")>>
       ELSE trace' = trace \o <<Ev("probe", "rust"), Ev("warn", "rust-missing"),
                                Ev("prompt", "rust:no"), Ev("error", "needs-rust")>>
    /\ pc' = IF IsWin(host) THEN "prep_msvc" ELSE "prep_gnu"
    /\ UNCHANGED <<call, host, tools, envTarget, envInst, envForce, conf, disk, opts, loc, exit>>

\* mutant: Rust is installed without asking
PrepRust_Unasked ==
    /\ pc = "prep_rust"
    /\ exit = Running
    /\ IF checkRustInstalled(tools)
       THEN /\ trace' = trace \o <<Ev("probe", "rust")>>
            /\ tools' = tools
       ELSE /\ trace' = trace \o <<Ev("probe", "rust"), Ev("warn", "rust-missing"),
                                   Ev("install", "rust")>>
            /\ tools' = installRustTools(tools, TRUE)
    /\ pc' = IF IsWin(host) THEN "prep_msvc" ELSE "prep_gnu"
    /\ UNCHANGED <<call, host, envTarget, envInst, envForce, conf, disk, opts, loc, exit>>

(* WinBuilder.prepare, the Rust check (both hosts): probe; if absent ask, and
   install on yes or record the error on no *)
PrepRust ==
    /\ pc = "prep_rust"
    /\ exit = Running
    /\ IF checkRustInstalled(tools)
       THEN /\ trace' = trace \o <<Ev("probe", "rust")>>
            /\ UNCHANGED <<tools, loc, exit>>
            /\ pc' = IF IsWin(host) THEN "prep_msvc" ELSE "prep_gnu"
       ELSE \E answer \in BOOLEAN, ok \in BOOLEAN, visible \in BOOLEAN :
            IF answer
            THEN /\ trace' = trace \o <<Ev("probe", "rust"), Ev("warn", "rust-missing"),
                                        Ev("prompt", "rust:yes"), Ev("install", "rust")>>
                                    \o installRustEvents(IsWin(host), ok)
                 /\ exit' = installRustExit(ok)
                 /\ tools' = IF ok THEN installRustTools(tools, visible) ELSE tools
                 /\ pc' = IF ~ok THEN "end"
                          ELSE IF IsWin(host) THEN "prep_msvc" ELSE "prep_gnu"
                 /\ UNCHANGED loc
            ELSE /\ ~ok /\ ~visible
                 /\ trace' = trace \o <<Ev("probe", "rust"), Ev("warn", "rust-missing"),
                                        Ev("prompt", "rust:no"), Ev("error", "needs-rust")>>
                 /\ loc' = [loc EXCEPT !.hasError = TRUE]
                 /\ pc' = IF IsWin(host) THEN "prep_msvc" ELSE "prep_gnu"
                 /\ UNCHANGED <<tools, exit>>
    /\ UNCHANGED <<call, host, envTarget, envInst, envForce, conf, disk, opts>>

(* WinBuilder.prepare on a non-Windows host: the Windows GNU target is installed
   with rustup, unasked, when the probe fails *)
PrepGnuTarget ==
    /\ pc = "prep_gnu"
    /\ exit = Running
    /\ IF checkRustWindowsGnuTarget(tools)
       THEN /\ trace' = trace \o <<Ev("probe", "gnutarget")>>
            /\ UNCHANGED <<tools, loc>>
       ELSE \E ok \in BOOLEAN :
            /\ trace' = trace \o <<Ev("probe", "gnutarget"), Ev("warn", "gnutarget-missing"),
                                    Ev("install", "gnutarget")>>
                              \o (IF ok THEN <<>> ELSE <<Ev("error", "gnutarget-failed")>>)
            /\ tools' = IF ok THEN tools \cup {"rustup", "x86_64-pc-windows-gnu"} ELSE tools
            /\ loc' = IF ok THEN loc ELSE [loc EXCEPT !.hasError = TRUE]
    /\ pc' = "prep_mingw"
    /\ UNCHANGED <<call, host, envTarget, envInst, envForce, conf, disk, opts, exit>>

(* WinBuilder.prepare on a non-Windows host: mingw-w64 is only recommended; then
   the accumulated errors end the process with status 2 *)
PrepMinGW ==
    /\ pc = "prep_mingw"
    /\ exit = Running
    /\ LET t1 == trace \o <<Ev("probe", "mingw")>>
                       \o (IF checkMinGWInstalled(IsWin(host), tools) THEN <<>>
                           ELSE <<Ev("warn", "mingw-missing")>>)
       IN  IF loc.hasError
           THEN /\ trace' = t1 \o <<Ev("error", "fix-errors")>>
                /\ exit' = Exited(2)
                /\ pc' = "end"
           ELSE /\ trace' = t1
                /\ exit' = exit
                /\ pc' = "prepared"
    /\ UNCHANGED <<call, host, tools, envTarget, envInst, envForce, conf, disk, opts, loc>>

(* WinBuilder.prepare on a Windows host: MSVC is required *)
PrepMSVC ==
    /\ pc = "prep_msvc"
    /\ exit = Running
    /\ IF checkMSVCInstalled(IsWin(host), tools)
       THEN /\ trace' = trace \o <<Ev("probe", "msvc")>>
            /\ UNCHANGED loc
       ELSE /\ trace' = trace \o <<Ev("probe", "msvc"), Ev("error", "msvc-missing")>>
            /\ loc' = [loc EXCEPT !.hasError = TRUE]
    /\ pc' = "prep_wix"
    /\ UNCHANGED <<call, host, tools, envTarget, envInst, envForce, conf, disk, opts, exit>>

(* WinBuilder.prepare on a Windows host: without WiX the user is asked whether to
   continue; then the accumulated errors end the process with status 2 *)
PrepWiX ==
    /\ pc = "prep_wix"
    /\ exit = Running
    /\ \E answer \in BOOLEAN :
       LET present == checkWiXInstalled(IsWin(host), tools)
           t1 == trace \o <<Ev("probe", "wix")>>
                       \o (IF present THEN <<>>
                           ELSE <<Ev("warn", "wix-missing"),
                                  Ev("prompt", IF answer THEN "wix:yes" ELSE "wix:no")>>)
           err == loc.hasError \/ (~present /\ ~answer)
       IN  /\ present => answer
           /\ loc' = [loc EXCEPT !.hasError = err]
           /\ IF err
              THEN /\ trace' = t1 \o <<Ev("error", "install-missing")>>
                   /\ exit' = Exited(2)
                   /\ pc' = "end"
              ELSE /\ trace' = t1
                   /\ exit' = exit
                   /\ pc' = "prepared"
    /\ UNCHANGED <<call, host, tools, envTarget, envInst, envForce, conf, disk, opts>>

----------------------------------------------------------------------------
(* WinBuilder.build *)

\* mutant: the target list is left as the shared descriptor has it
crossDisable_KeepTargets(c) == [c EXCEPT !.wix = None]

\* lines 642-649: the msi target and the wix section are removed before merging
crossDisable(c) == [c EXCEPT !.targets = Has(<<>>), !.wix = None]

\* mutant: an empty list of saved targets is not put back
crossRestore_NonEmpty(originalTargets, originalWix, c) ==
    LET c1 == IF originalTargets.has /\ originalTargets.val # <<>>
              THEN [c EXCEPT !.targets = originalTargets] ELSE c
    IN  IF originalWix.has THEN [c1 EXCEPT !.hasWindows = TRUE, !.wix = originalWix] ELSE c1

\* lines 654-662: what was there before is put back, if it was something
crossRestore(originalTargets, originalWix, c) ==
    LET c1 == IF originalTargets.has THEN [c EXCEPT !.targets = originalTargets] ELSE c
    IN  IF originalWix.has THEN [c1 EXCEPT !.hasWindows = TRUE, !.wix = originalWix] ELSE c1

\* common.ts lines 83-86 and 129-130: mergeTauriConfig got past the name check,
\* copied icons into src-tauri/png, and a copy failed into its .catch(() => {})
MergeCopyFailed(h, eTarget, o, c, d, io) ==
    LET winFamily == h = "win32" \/ IsCrossCompilingWindows(h, eTarget, c)
        adoptIco  == o.iconExists /\ winFamily /\ ToLowerCase(o.iconExt) = S_ico
    IN  /\ NameOk(h, o.name)
        /\ adoptIco \/ AdoptDefault(o.iconExists, winFamily, d.png)
        /\ ~io.copy32 \/ ~io.copy256

(* build(), lines 629-665: the cross flag, the temporary edit of the shared
   descriptor, mergeTauriConfig, and the restore *)
BuildConfig ==
    /\ pc = "prepared"
    /\ exit = Running
    /\ \E o \in BuildOptions, io \in MergeIos :
       LET cross == ~IsWin(host)
           eT == IF cross THEN S_win ELSE envTarget
           c0 == IF cross THEN crossDisable(conf) ELSE conf
           r  == mergeTauriConfig(host, eT, o, c0, disk, io)
       IN  /\ opts' = o
           /\ envTarget' = eT
           /\ disk' = r.disk
           /\ trace' = r.events
           /\ exit' = r.exit
           /\ conf' = IF cross /\ r.exit = Running
                      THEN crossRestore(conf.targets, conf.wix, r.conf)
                      ELSE r.conf
           /\ pc' = IF r.exit # Running THEN "end"
                    ELSE IF cross THEN "cross_mingw" ELSE "native_select"
           /\ loc' = [NoLoc EXCEPT !.swallowed =
                        IF MergeCopyFailed(host, eT, o, c0, disk, io)
                        THEN {<<"copy", "merge">>} ELSE {}]
    /\ call' = "build"
    /\ UNCHANGED <<host, tools, envInst, envForce>>

\* mutant: a missing mingw-w64 is only warned about
CrossCheckMinGW_WarnOnly ==
    /\ pc = "cross_mingw"
    /\ exit = Running
    /\ pc' = "cross_prep"
    /\ trace' = trace \o <<Ev("probe", "mingw")>>
                      \o (IF checkMinGWInstalled(IsWin(host), tools) THEN <<>>
                          ELSE <<Ev("warn", "mingw-missing")>>)
    /\ UNCHANGED <<call, host, tools, envTarget, envInst, envForce, conf, disk, opts, loc, exit>>

(* build(), lines 667-709: without mingw-w64 the linker configuration is written
   and the process ends with status 1 *)
CrossCheckMinGW ==
    /\ pc = "cross_mingw"
    /\ exit = Running
    /\ IF checkMinGWInstalled(IsWin(host), tools)
       THEN /\ pc' = "cross_prep"
            /\ trace' = trace \o <<Ev("probe", "mingw")>>
            /\ UNCHANGED <<disk, exit>>
       ELSE \E writeOk \in BOOLEAN :
            /\ pc' = "end"
            /\ exit' = Exited(1)
            /\ disk' = [disk EXCEPT !.cargo = @ \/ writeOk]
            /\ trace' = trace \o <<Ev("probe", "mingw"), Ev("warn", "mingw-missing")>>
                              \o (IF writeOk THEN <<Ev("write", ".cargo/config.toml")>>
                                  ELSE <<Ev("warn", "cargo-config-failed")>>)
                              \o <<Ev("error", "mingw-missing")>>
    /\ UNCHANGED <<call, host, tools, envTarget, envInst, envForce, conf, opts, loc>>

\* lines 738-739: the application's icon if it is in src-tauri/png, else the default
IconToCopy(d, lower, tag) ==
    IF IconRel(lower, tag) \in d.png THEN IconRel(lower, tag) ELSE IconRel(S_icon, tag)

\* lines 741-744 and 762-765: the two copies one after the other in one try
\* block; the second is not tried when the first has failed
CopiedIcons(d, srcs, lower, copy32Ok, copy256Ok) ==
    LET ok32  == copy32Ok /\ (\E ic \in srcs : ic.tag = "32" /\ ic \in d.png)
        ok256 == ok32 /\ copy256Ok /\ (\E ic \in srcs : ic.tag = "256" /\ ic \in d.png)
    IN  (IF ok32 THEN {<<lower, "32">>} ELSE {}) \cup (IF ok256 THEN {<<lower, "256">>} ELSE {})

\* lines 725 and 760, 741-747 and 762-767: the icon steps of one round whose
\* failure was caught
SwallowedBy(round, mkdirOk, got) ==
    (IF mkdirOk THEN {} ELSE {<<"mkdir", round>>})
    \cup (IF Cardinality(got) = 2 THEN {} ELSE {<<"copy", round>>})

\* lines 745-747: the catch of the copies before the build logs a warning
IconCopyWarning(got) ==
    IF Cardinality(got) = 2 THEN <<>> ELSE <<Ev("warn", "icon-copy")>>

(* build(), lines 711-747: the Windows config is rewritten with no targets, the
   icons are copied next to the future executable; failures are warnings *)
CrossPrep ==
    /\ pc = "cross_prep"
    /\ exit = Running
    /\ \E updOk \in BOOLEAN, mkdirOk \in BOOLEAN, copy32Ok \in BOOLEAN, copy256Ok \in BOOLEAN :
       LET lower == ToLowerCase(opts.name)
           upd   == updOk /\ disk.platConf["windows"].has
           d1    == IF upd
                    THEN [disk EXCEPT !.platConf["windows"].val.targets = Has(<<>>)]
                    ELSE disk
           srcs  == {IconToCopy(disk, lower, "32"), IconToCopy(disk, lower, "256")}
           got   == CopiedIcons(disk, srcs, lower, copy32Ok, copy256Ok)
       IN  /\ copy32Ok \/ ~copy256Ok
           /\ disk' = [d1 EXCEPT !.outPng = @ \cup got]
           /\ loc' = [loc EXCEPT !.iconsToCopy = srcs,
                                 !.swallowed = @ \cup SwallowedBy("before", mkdirOk, got)]
           /\ trace' = trace
                \o (IF upd THEN <<Ev("write", "windows")>> ELSE <<Ev("warn", "windows-conf")>>)
                \o [i \in 1..Cardinality(got) |-> Ev("write", "icon")]
                \o IconCopyWarning(got)
    /\ pc' = "cross_exec"
    /\ UNCHANGED <<call, host, tools, envTarget, envInst, envForce, conf, opts, exit>>

(* build(), lines 749-755: the one external command of the cross path *)
CrossExec ==
    /\ pc = "cross_exec"
    /\ exit = Running
    \* out: which of the three candidate paths of lines 771-775 the build leaves
    /\ \E ok \in BOOLEAN, out \in {{}, {1}, {3}, {2, 3}, {1, 2, 3}} :
       /\ trace' = trace \o <<Ev("exec", "cargo-build")>>
                         \o (IF ok THEN <<>> ELSE <<Ev("failed", "exec")>>)
       /\ IF ok
          THEN /\ disk' = [disk EXCEPT !.crossOut = @ \cup out]
               /\ pc' = "cross_post"
               /\ exit' = exit
          ELSE /\ out = {}
               /\ disk' = disk
               /\ pc' = "end"
               /\ exit' = Thrown
    /\ UNCHANGED <<call, host, tools, envTarget, envInst, envForce, conf, opts, loc>>

\* mutant: the last candidate that exists
FirstCandidate_Last(out) ==
    IF 3 \in out THEN 3 ELSE IF 2 \in out THEN 2 ELSE IF 1 \in out THEN 1 ELSE 0

\* lines 770-775: possiblePaths, by position
CandidatePath(i) ==
    IF i = 1 THEN "release/<name>.exe"
    ELSE IF i = 2 THEN "bundle/nsis/<name>_<version>_x64-setup.exe"
    ELSE "bundle/nsis/<name>_<version>_x64.exe"

\* line 778: fs.access is called on the candidates in order up to the one found
AccessEvents(k) == [i \in 1..(IF k = 0 THEN 3 ELSE k) |-> Ev("access", CandidatePath(i))]

\* lines 777-787: the first candidate that exists, 0 if none
FirstCandidate(out) ==
    IF 1 \in out THEN 1 ELSE IF 2 \in out THEN 2 ELSE IF 3 \in out THEN 3 ELSE 0

DistFile(name, suffix, from, src) ==
    [file |-> name \o suffix, from |-> from, src |-> src]

\* fs.copyFile(found, distPath), lines 780, 908, 964, 997: the file appears in
\* the working directory and stays where it was found
CopyArtifact(d, hit) == [d EXCEPT !.dist = @ \cup {hit}]

(* build(), lines 757-795: icons again, then the executable is looked for and
   copied out; not finding it is reported and build() returns *)
CrossPost ==
    /\ pc = "cross_post"
    /\ exit = Running
    /\ \E mkdirOk \in BOOLEAN, copy32Ok \in BOOLEAN, copy256Ok \in BOOLEAN, distOk \in BOOLEAN :
       LET lower == ToLowerCase(opts.name)
           got   == CopiedIcons(disk, loc.iconsToCopy, lower, copy32Ok, copy256Ok)
           d1    == [disk EXCEPT !.outPng = @ \cup got]
           k     == FirstCandidate(disk.crossOut)
           t1    == trace \o [i \in 1..Cardinality(got) |-> Ev("write", "icon")]
                          \o AccessEvents(k)
       IN  /\ copy32Ok \/ ~copy256Ok
           /\ loc' = [loc EXCEPT !.swallowed = @ \cup SwallowedBy("after", mkdirOk, got)]
           /\ IF k = 0
              THEN /\ distOk
                   /\ disk' = d1
                   /\ trace' = t1 \o <<Ev("error", "output-not-found")>>
                   /\ exit' = Returned
              ELSE IF distOk
              THEN /\ disk' = CopyArtifact(d1, DistFile(opts.name, S_exe, "cross", <<k>>))
                   /\ trace' = t1 \o <<Ev("write", "dist")>>
                   /\ exit' = Returned
              ELSE /\ disk' = d1
                   /\ trace' = t1
                   /\ exit' = Thrown
    /\ pc' = "end"
    /\ UNCHANGED <<call, host, tools, envTarget, envInst, envForce, conf, opts>>

\* mutant: msi is the default
SelectTargetBundle_DefaultMsi(eInst) ==
    LET installerType == ToLowerCase(IF eInst = Undefined \/ eInst = <<>> THEN S_msi ELSE eInst)
    IN  IF installerType = S_msi THEN "msi" ELSE "nsis"

\* lines 801-804: nsis unless PAKE_WINDOWS_INSTALLER is msi in any letter case
SelectTargetBundle(eInst) ==
    LET installerType == ToLowerCase(IF eInst = Undefined \/ eInst = <<>> THEN S_nsis ELSE eInst)
    IN  IF installerType = S_msi THEN "msi" ELSE "nsis"

\* mutant: any value of the variable forces msi
ForceMsi_Truthy(eForce) == eForce # Undefined /\ eForce # <<>>

\* line 817
ForceMsi(eForce) == eForce = S_one

\* line 818: a non-ASCII name turns an unforced msi into nsis
SwitchToNsis(name, targetBundle, forceMsi) ==
    ContainsNonAscii(name) /\ targetBundle = "msi" /\ ~forceMsi

\* mutants: the retry for every name; the retry whatever was being built
FallbackOnError_AnyName(targetBundle, containsNonAscii) == targetBundle = "msi"

FallbackOnError_AnyTarget(targetBundle, containsNonAscii) == containsNonAscii

\* line 855: a failed build is retried with nsis only for a non-ASCII name
FallbackOnError(targetBundle, containsNonAscii) ==
    targetBundle = "msi" /\ containsNonAscii

(* build(), lines 797-846: the installer target is chosen and written into the
   descriptor, tauri.conf.json is written and read back *)
NativeSelect ==
    /\ pc = "native_select"
    /\ exit = Running
    /\ \E writeOk \in BOOLEAN, readOk \in BOOLEAN :
       LET name == opts.name
           tb0  == SelectTargetBundle(envInst)
           sw   == SwitchToNsis(name, tb0, ForceMsi(envForce))
           tb   == IF sw THEN "nsis" ELSE tb0
           c1   == [conf EXCEPT !.targets = Has(<<tb>>), !.productName = name]
           t1   == trace \o <<Ev("info", "target-set")>>
                         \o (IF sw THEN <<Ev("warn", "msi-switched-to-nsis")>> ELSE <<>>)
           d1   == [disk EXCEPT !.confJson = Has(c1)]
       IN  /\ writeOk \/ readOk
           /\ conf' = c1
           /\ loc' = [loc EXCEPT !.targetBundle = tb,
                                 !.containsNonAscii = ContainsNonAscii(name)]
           /\ IF ~writeOk
              THEN /\ disk' = disk
                   /\ trace' = t1
                   /\ exit' = Thrown
                   /\ pc' = "end"
              ELSE IF ~readOk
              THEN /\ disk' = d1
                   /\ trace' = t1 \o <<Ev("write", "tauri.conf.json"), Ev("failed", "read")>>
                   /\ exit' = Thrown
                   /\ pc' = "end"
              ELSE IF d1.confJson.val.productName # name
              THEN /\ disk' = d1
                   /\ trace' = t1 \o <<Ev("write", "tauri.conf.json"), Ev("error", "verify")>>
                   /\ exit' = Thrown
                   /\ pc' = "end"
              ELSE /\ disk' = d1
                   /\ trace' = t1 \o <<Ev("write", "tauri.conf.json")>>
                   /\ exit' = exit
                   /\ pc' = "native_exec"
    /\ UNCHANGED <<call, host, tools, envTarget, envInst, envForce, opts>>

\* file names the bundler may leave
MsiName(name, c) ==
    LET language == IF c.wix.has /\ c.wix.val.language.has /\ c.wix.val.language.val # <<>>
                    THEN c.wix.val.language.val[1] ELSE S_enUS
    IN  name \o S_us \o S_version \o S_us \o S_x64 \o S_us \o language \o S_dmsi

NsisName(name) == name \o S_us \o S_version \o S_us \o S_x64 \o S_dashSetupExe

\* what an external build with --bundles b may leave in bundle/msi and bundle/nsis
BundleOutputs(b, name, c, d) ==
    IF b = "msi"
    THEN { [d EXCEPT !.msiDir = m, !.nsisDir = n] :
             m \in {NoFile, Has(<<S_wixobj>>), Has(<<S_wixobj, MsiName(name, c)>>),
                    Has(<< <<65, 112, 112, 46, 77, 83, 73>> >>)},   \* App.MSI
             n \in {d.nsisDir, Has(<<NsisName(name)>>)} }
    ELSE { [d EXCEPT !.nsisDir = n] :
             n \in {NoFile, Has(<<S_uninstallExe>>), Has(<<S_uninstallExe, NsisName(name)>>),
                    Has(<<S_SetupEXE>>), Has(<<S_SetupEXE, NsisName(name)>>)} }

ExecEvent(b) == Ev("exec", IF b = "msi" THEN "tauri-build:msi" ELSE "tauri-build:nsis")

(* build(), lines 848-852 and the head of the catch block: the external build *)
NativeExec ==
    /\ pc = "native_exec"
    /\ exit = Running
    /\ \E ok \in BOOLEAN :
       IF ok
       THEN /\ disk' \in BundleOutputs(loc.targetBundle, opts.name, conf, disk)
            /\ trace' = trace \o <<ExecEvent(loc.targetBundle)>>
            /\ pc' = "native_search"
            /\ exit' = exit
       ELSE IF FallbackOnError(loc.targetBundle, loc.containsNonAscii)
       THEN /\ disk' = disk
            /\ trace' = trace \o <<ExecEvent(loc.targetBundle), Ev("failed", "exec"),
                                    Ev("warn", "msi-build-failed")>>
            /\ pc' = "native_fallback"
            /\ exit' = exit
       ELSE /\ disk' = disk
            /\ trace' = trace \o <<ExecEvent(loc.targetBundle), Ev("failed", "exec")>>
            /\ pc' = "end"
            /\ exit' = Thrown
    /\ UNCHANGED <<call, host, tools, envTarget, envInst, envForce, conf, opts, loc>>

(* build(), lines 856-866: the descriptor is switched to nsis, written, and the
   external build is run once more *)
NativeFallback ==
    /\ pc = "native_fallback"
    /\ exit = Running
    /\ \E writeOk \in BOOLEAN, ok \in BOOLEAN :
       LET c1 == [conf EXCEPT !.targets = Has(<<"nsis">>)]
           d1 == [disk EXCEPT !.confJson = Has(c1)]
       IN  /\ conf' = c1
           /\ IF ~writeOk
              THEN /\ ~ok
                   /\ disk' = disk
                   /\ trace' = trace
                   /\ loc' = loc
                   /\ exit' = Thrown
                   /\ pc' = "end"
              ELSE /\ loc' = [loc EXCEPT !.targetBundle = "nsis"]
                   /\ trace' = trace \o <<Ev("write", "tauri.conf.json"), ExecEvent("nsis")>>
                                     \o (IF ok THEN <<>> ELSE <<Ev("failed", "exec")>>)
                   /\ IF ok
                      THEN /\ disk' \in BundleOutputs("nsis", opts.name, c1, d1)
                           /\ exit' = exit
                           /\ pc' = "native_search"
                      ELSE /\ disk' = d1
                           /\ exit' = Thrown
                           /\ pc' = "end"
    /\ UNCHANGED <<call, host, tools, envTarget, envInst, envForce, opts>>

\* mutant: every *.exe of the listing is a candidate
SetupCandidates_AnyExe(files) ==
    SelectSeq(files, LAMBDA f : EndsWith(ToLowerCase(f), S_exe))

\* lines 894-901: the first *.exe of the listing whose name contains "setup"
SetupCandidates(files) ==
    SelectSeq(SelectSeq(files, LAMBDA f : EndsWith(ToLowerCase(f), S_exe)),
              LAMBDA f : Includes(ToLowerCase(f), S_setup))

(* fs.readdir, lines 894, 939 and 981: the entries of a directory, or nothing
   when it cannot be read. The order of the entries is the platform's: it is
   not sorted and Node specifies none, so any order may come back *)
Readdir(dir) ==
    IF ~dir.has THEN {dir}
    ELSE LET n == Len(dir.val)
             orders == {q \in [1..n -> 1..n] : \A a, b \in 1..n : a # b => q[a] # q[b]}
         IN  { Has([k \in 1..n |-> dir.val[q[k]]]) : q \in orders }

\* lines 893-901 and 980-988: the first setup executable of the listing
FindNsis(listing) ==
    IF ~listing.has THEN None
    ELSE LET c == SetupCandidates(listing.val)
         IN  IF c # <<>> THEN Has(c[1]) ELSE None

\* lines 917-960: the exact name, else the first *.msi of the listing
FindMsi(name, c, listing) ==
    IF ~listing.has THEN None
    ELSE LET files == listing.val
             exact == MsiName(name, c)
             msiFiles == SelectSeq(files, LAMBDA f : EndsWith(ToLowerCase(f), S_dmsi))
         IN  IF \E i \in 1..Len(files) : files[i] = exact THEN Has(exact)
             ELSE IF msiFiles # <<>> THEN Has(msiFiles[1]) ELSE None

(* build(), lines 887-1012: the installer is looked for and copied out; an msi
   that is not there falls back to whatever bundle/nsis holds *)
NativeSearch ==
    /\ pc = "native_search"
    /\ exit = Running
    /\ \E distOk \in BOOLEAN, nsisFiles \in Readdir(disk.nsisDir),
          msiFiles \in Readdir(disk.msiDir) :
       LET name == opts.name
           nsis == FindNsis(nsisFiles)
           msi  == IF loc.targetBundle = "msi" THEN FindMsi(name, conf, msiFiles) ELSE None
           hit  == IF loc.targetBundle = "nsis"
                   THEN (IF nsis.has THEN DistFile(name, S_dashSetupExe, "nsis", nsis.val)
                         ELSE DistFile(name, <<>>, "none", <<>>))
                   ELSE IF msi.has THEN DistFile(name, S_dmsi, "msi", msi.val)
                   ELSE IF nsis.has THEN DistFile(name, S_dashSetupExe, "nsis", nsis.val)
                   ELSE DistFile(name, <<>>, "none", <<>>)
           t1   == trace \o (IF loc.targetBundle = "msi" /\ ~msi.has
                             THEN <<Ev("warn", "msi-not-found")>> ELSE <<>>)
       IN  IF hit.from = "none"
           THEN /\ distOk
                /\ disk' = disk
                /\ trace' = t1 \o <<Ev("error", "no-installer-found")>>
                /\ exit' = Thrown
           ELSE IF distOk
           THEN /\ disk' = CopyArtifact(disk, hit)
                /\ trace' = t1 \o <<Ev("write", "dist")>>
                /\ exit' = Returned
           ELSE /\ disk' = disk
                /\ trace' = t1
                /\ exit' = Thrown
    /\ pc' = "end"
    /\ UNCHANGED <<call, host, tools, envTarget, envInst, envForce, conf, opts, loc>>

(* A later build in the same process, by the builder of the host's own
   platform, after a cross build returned or threw: its build() begins by
   calling mergeTauriConfig on the shared descriptor, in the environment the
   earlier build left *)
LaterBuildConfig ==
    /\ pc = "end"
    /\ call = "build"
    /\ ~IsWin(host)
    /\ exit \in {Returned, Thrown}
    /\ \E i \in { [iconExists |-> FALSE, iconExt |-> S_ico, iconDir |-> "elsewhere"],
                  [iconExists |-> TRUE, iconExt |-> S_png, iconDir |-> "elsewhere"] },
          io \in MergeIos :
       LET o == [name |-> <<97>>, iconExists |-> i.iconExists, iconExt |-> i.iconExt,
                 iconDir |-> i.iconDir]
           r == mergeTauriConfig(host, envTarget, o, conf, disk, io)
       IN  /\ opts' = o
           /\ disk' = r.disk
           /\ conf' = r.conf
           /\ trace' = r.events
           /\ exit' = r.exit
           /\ pc' = IF r.exit = Running THEN "later_configured" ELSE "end"
    /\ loc' = NoLoc
    /\ call' = "later"
    /\ UNCHANGED <<host, tools, envTarget, envInst, envForce>>

Next ==
    \/ PrepRust
    \/ PrepGnuTarget
    \/ PrepMinGW
    \/ PrepMSVC
    \/ PrepWiX
    \/ BuildConfig
    \/ CrossCheckMinGW
    \/ CrossPrep
    \/ CrossExec
    \/ CrossPost
    \/ NativeSelect
    \/ NativeExec
    \/ NativeFallback
    \/ NativeSearch

Spec == Init /\ [][Next]_vars

\* the first build is on a host that is not Windows with everything prepare
\* looks for installed, from the descriptor whose target list names msi
LaterInit ==
    /\ Init
    /\ ~IsWin(host)
    /\ tools = HostItems(host)
    /\ conf = BaseConf(Has(<<"msi", "updater">>), Has(WixEnUS))

\* prepare and the cross build as above, and then the later build in the same
\* process
LaterNext ==
    \/ PrepRust
    \/ PrepGnuTarget
    \/ PrepMinGW
    \/ BuildConfig
    \/ CrossCheckMinGW
    \/ CrossPrep
    \/ CrossExec
    \/ CrossPost
    \/ LaterBuildConfig

LaterSpec == LaterInit /\ [][LaterNext]_vars

----------------------------------------------------------------------------
(* mergeTauriConfig on its own: one call, by any builder, on any host and in
   any environment *)

\* the descriptor passed in. Its target list: none, empty, with msi, without.
\* Its icon list: none, a default of src-tauri/png by its relative path, the
\* same by its absolute path
MergeConfs ==
    { [BaseConf(t, IF t = Has(<<"msi", "updater">>) THEN Has(WixEnUS) ELSE None)
         EXCEPT !.icon = ic] :
        t \in { None, Has(<<>>), Has(<<"msi", "updater">>), Has(<<"nsis">>), Has(<<"deb">>) },
        ic \in { <<>>, <<IconRel(S_icon, "32")>>,
                 <<[IconRel(S_icon, "32") EXCEPT !.abs = TRUE]>> } }

\* src-tauri/png before the call: both default icons, one, none
MergeDisks ==
    { InitDisk, [InitDisk EXCEPT !.png = {IconRel(S_icon, "32")}],
      [InitDisk EXCEPT !.png = {}] }

\* options.icon: missing, or a file with one of the extensions, outside or
\* inside src-tauri/png
MergeIconOptions ==
    { [iconExists |-> FALSE, iconExt |-> S_ico, iconDir |-> "elsewhere"],
      [iconExists |-> TRUE, iconExt |-> S_ICO, iconDir |-> "elsewhere"],
      [iconExists |-> TRUE, iconExt |-> S_ico, iconDir |-> "png"],
      [iconExists |-> TRUE, iconExt |-> S_png, iconDir |-> "elsewhere"],
      [iconExists |-> TRUE, iconExt |-> S_icns, iconDir |-> "elsewhere"] }

MergeOptions ==
    { [name |-> n, iconExists |-> i.iconExists, iconExt |-> i.iconExt, iconDir |-> i.iconDir] :
        n \in Names, i \in MergeIconOptions }

MergeInit ==
    /\ host \in Hosts
    /\ tools = {}
    /\ envTarget \in {Undefined, S_win, S_empty}
    /\ envInst = Undefined
    /\ envForce = Undefined
    /\ conf \in MergeConfs
    /\ disk \in MergeDisks
    /\ opts = NoOpts
    /\ loc = NoLoc
    /\ call = "merge"
    /\ pc = "merge_call"
    /\ exit = Running
    /\ trace = <<>>

(* mergeTauriConfig(url, options, tauriConf), called once; each copy and each
   write may fail *)
MergeCall ==
    /\ pc = "merge_call"
    /\ \E o \in MergeOptions,
          io \in MergeIos :
       LET r == mergeTauriConfig(host, envTarget, o, conf, disk, io)
       IN  /\ opts' = o
           /\ conf' = r.conf
           /\ disk' = r.disk
           /\ trace' = r.events
           /\ exit' = r.exit
    /\ pc' = "merge_done"
    /\ UNCHANGED <<host, tools, envTarget, envInst, envForce, loc, call>>

MergeNext == MergeCall

MergeSpec == MergeInit /\ [][MergeNext]_vars

----------------------------------------------------------------------------
(* helpers/rust.ts on its own: one call of one probe, on any host *)

\* what the probe returns
ProbeResult(which, isWin, t) ==
    IF which = "rust" THEN checkRustInstalled(t)
    ELSE IF which = "msvc" THEN checkMSVCInstalled(isWin, t)
    ELSE IF which = "wix" THEN checkWiXInstalled(isWin, t)
    ELSE IF which = "mingw" THEN checkMinGWInstalled(isWin, t)
    ELSE checkRustWindowsGnuTarget(t)

\* the external commands the probe runs (shelljs.exec), in order
ProbeCommands(which, isWin) ==
    IF which = "rust" THEN <<"rustc --version">>
    ELSE IF which = "msvc"
         THEN (IF ~isWin THEN <<>> ELSE <<"where cl.exe", "where link.exe">>)
    ELSE IF which = "wix"
         THEN (IF ~isWin THEN <<>> ELSE <<"where candle.exe", "where light.exe">>)
    ELSE IF which = "mingw"
         THEN (IF isWin THEN <<>>
               ELSE <<"which x86_64-w64-mingw32-gcc", "which i686-w64-mingw32-gcc">>)
    ELSE <<"rustup target list --installed">>

\* the directories the probe tests (shelljs.test) when neither command found
\* the tool
ProbeDirectories(which, isWin, t) ==
    IF which = "msvc" /\ isWin /\ "cl.exe" \notin t /\ "link.exe" \notin t
    THEN <<"vsdir">>
    ELSE IF which = "wix" /\ isWin /\ "candle.exe" \notin t /\ "light.exe" \notin t
    THEN <<"wixdir">>
    ELSE <<>>

ProbeInit ==
    /\ host \in Hosts
    \* everything a probe looks for
    /\ tools \in SUBSET { "rustc", "cl.exe", "link.exe", "vsdir", "candle.exe", "light.exe",
                          "wixdir", "x86_64-w64-mingw32-gcc", "i686-w64-mingw32-gcc",
                          "rustup", "x86_64-pc-windows-gnu", "i686-pc-windows-gnu" }
    /\ envTarget = Undefined
    /\ envInst = Undefined
    /\ envForce = Undefined
    /\ conf = BaseConf(None, None)
    /\ disk = InitDisk
    /\ opts = NoOpts
    /\ loc = NoLoc
    /\ call = "probe"
    /\ pc = "probe_call"
    /\ exit = Running
    /\ trace = <<>>

(* one of the probes is called *)
ProbeCall ==
    /\ pc = "probe_call"
    /\ \E which \in {"rust", "msvc", "wix", "mingw", "gnutarget"} :
       LET cmds == ProbeCommands(which, IsWin(host))
           dirs == ProbeDirectories(which, IsWin(host), tools)
       IN  trace' = <<Ev("probe", which)>>
                    \o [i \in 1..Len(cmds) |-> Ev("spawn", cmds[i])]
                    \o [i \in 1..Len(dirs) |-> Ev("test", dirs[i])]
                    \o <<Ev("result", IF ProbeResult(which, IsWin(host), tools)
                                      THEN "true" ELSE "false")>>
    /\ pc' = "probed"
    /\ exit' = Returned
    /\ UNCHANGED <<host, tools, envTarget, envInst, envForce, conf, disk, opts, loc, call>>

ProbeNext == ProbeCall

ProbeSpec == ProbeInit /\ [][ProbeNext]_vars

----------------------------------------------------------------------------
(* builders/BuilderFactory.ts: one call of BuilderFactory.create *)

\* the targetPlatform argument: left out, or a string
Target(s) == [given |-> TRUE, val |-> s]

FactoryTargets ==
    {[given |-> FALSE, val |-> ""]} \cup
    { Target(s) : s \in {"mac", "win", "linux", "", "Mac", "WIN", "Linux", "windows",
                         "darwin", "win32", "macos", "android", "ios"} }

\* `if (targetPlatform)`: an argument left out and the empty string are falsy
TargetGiven(t) == t.given /\ t.val # ""

Builder(b) == [kind |-> "builder", what |-> b]
CreateError(e) == [kind |-> "throw", what |-> e]

\* mutant: the host decides, the argument only when the host is not supported
create_HostFirst(t, h) ==
    IF h = "darwin" THEN Builder("mac")
    ELSE IF h = "win32" THEN Builder("win")
    ELSE IF h = "linux" THEN Builder("linux")
    ELSE IF TargetGiven(t) /\ t.val \in {"mac", "win", "linux"} THEN Builder(t.val)
    ELSE CreateError("unsupported-host")

(* BuilderFactory.create(targetPlatform?), lines 14-45 *)
create(t, h) ==
    IF TargetGiven(t)
    THEN IF t.val = "mac" THEN Builder("mac")
         ELSE IF t.val = "win" THEN Builder("win")
         ELSE IF t.val = "linux" THEN Builder("linux")
         ELSE CreateError("unsupported-target")
    ELSE IF h = "darwin" THEN Builder("mac")
    ELSE IF h = "win32" THEN Builder("win")
    ELSE IF h = "linux" THEN Builder("linux")
    ELSE CreateError("unsupported-host")

FactoryInit ==
    /\ host \in {"win32", "linux", "darwin", "freebsd", "openbsd", "sunos", "aix", "android"}
    /\ tools = {}
    /\ envTarget = Undefined
    /\ envInst = Undefined
    /\ envForce = Undefined
    /\ conf = BaseConf(None, None)
    /\ disk = InitDisk
    /\ opts = NoOpts
    /\ loc = NoLoc
    /\ call = "create"
    /\ pc = "create_call"
    /\ exit = Running
    /\ trace = <<>>

(* the call: the argument, the cross-compilation notice of lines 22-25, and
   the builder returned or the error thrown *)
FactoryCreate ==
    /\ pc = "create_call"
    /\ \E t \in FactoryTargets :
       LET r == create(t, host)
       IN  /\ trace' = <<[k |-> "arg", a |-> t.val, given |-> t.given]>>
                        \o (IF TargetGiven(t) /\ t.val = "win" /\ ~IsWin(host)
                            THEN <<[k |-> "info", a |-> "cross-compile", given |-> TRUE]>>
                            ELSE <<>>)
                        \o <<[k |-> r.kind, a |-> r.what, given |-> TRUE]>>
           /\ exit' = IF r.kind = "throw" THEN Thrown ELSE Returned
    /\ pc' = "created"
    /\ UNCHANGED <<host, tools, envTarget, envInst, envForce, conf, disk, opts, loc, call>>

FactoryNext == FactoryCreate

FactorySpec == FactoryInit /\ [][FactoryNext]_vars

----------------------------------------------------------------------------
(* Two calls of WinBuilder.build in one process, on the descriptor object the
   module imports once (tauriConf), interleaving where build() awaits. A step
   of a call is what runs when an awaited operation completes: the operation's
   result, and the code that follows it up to the next await. fs.writeFile is
   two steps more, because it is not atomic: the file is opened and truncated,
   and later the content, fixed when writeFile was called, is put at its start.
   A file another call has written to in between may end as a mix of the two
   contents, which no reader can parse (disk.torn). A read sees the file as it
   is when the read completes. The writes and the reads of the two files both
   calls use, the platform configuration file and tauri.conf.json, may fail,
   and so may the two copies to the output directory (lines 741-747), whose
   failure changes where build() goes on. The other operations on icon files
   are steps of their own: the copies inside mergeTauriConfig are made (their
   failures are in Spec), and a failed fs.mkdir changes nothing. Each call is
   followed up to the moment its external build reads tauri.conf.json. trace
   holds the warnings of build() *)

Procs == {1, 2}

\* the name each call is given
ConcName(i) == IF i = 1 THEN <<97>> ELSE <<98>>

\* the descriptor as imported, before either call
ConcBase == BaseConf(Has(<<"msi", "updater">>), Has(WixEnUS))

\* the locals of one call
ConcLocals ==
    [ originalTargets |-> None, originalWix |-> None,
      restoredAt |-> 0,          \* which of the restores of lines 654-662 was this call's
      cross     |-> FALSE,       \* mergeTauriConfig: isCrossCompilingWindows
      default32 |-> FALSE,       \* mergeTauriConfig: defaultExists32
      file      |-> "none",      \* the file of the fs.writeFile in flight
      pending   |-> NoFile,      \* and the content it was called with
      iconsToCopy |-> {},        \* build: icon32ToCopy, icon256ToCopy
      readBack  |-> NoFile,      \* build: verifyConfig, tauri.conf.json as read back
      built     |-> FALSE,       \* its external build has read tauri.conf.json
      builtWith |-> NoFile,      \* and this is what it found there
      failed    |-> FALSE ]      \* build() threw

ConcInit ==
    /\ host \in {"linux", "win32"}
    /\ tools = IF IsWin(host) THEN {} ELSE {"x86_64-w64-mingw32-gcc"}
    /\ envTarget = Undefined
    /\ envInst = Undefined
    /\ envForce = Undefined
    /\ conf = ConcBase
    /\ disk = InitDisk
    /\ opts = [i \in Procs |-> NoOpts]
    /\ loc = [i \in Procs |-> ConcLocals]
    /\ call = "concurrent"
    /\ pc = [i \in Procs |-> "idle"]
    /\ exit = Running
    /\ trace = <<>>

\* what every step of call i does besides its own effect
ConcStep(i, from, to, logged) ==
    /\ pc[i] = from
    /\ pc' = [pc EXCEPT ![i] = to]
    /\ trace' = trace \o logged
    /\ UNCHANGED <<host, tools, envInst, envForce, call, exit>>

\* fs.readFile and JSON.parse of one of the two configuration files: nothing
\* when the file is missing, empty or a mix of two contents
ConcRead(d, f) ==
    IF f \in d.torn THEN NoFile
    ELSE IF f = "tauri.conf.json" THEN d.confJson
    ELSE d.platConf[f]

\* the bytes of a configuration file replaced: by nothing, by a content, or by
\* a mix of two contents
ConcPut(d, f, x, mixed) ==
    LET d1 == IF f = "tauri.conf.json" THEN [d EXCEPT !.confJson = x]
              ELSE [d EXCEPT !.platConf[f] = x]
    IN  [d1 EXCEPT !.torn = IF mixed THEN @ \cup {f} ELSE @ \ {f}]

\* common.ts lines 75-206 without the copies: the icon list and the resources
\* when the name-derived icons were adopted, the user's icon on a native build,
\* the relative paths and the wix section
ConcSettled(h, cross, o, c, adopted) ==
    LET lower == ToLowerCase(o.name)
        winFamily == h = "win32" \/ cross
        ext == ToLowerCase(o.iconExt)
        update == /\ ~(winFamily /\ ext # S_ico)
                  /\ ~(h = "linux" /\ ~cross /\ ext # S_png)
                  /\ ~(h = "darwin" /\ ext # S_icns /\ ~cross)
        c2 == IF adopted
              THEN [c EXCEPT !.icon = <<IconRel(lower, "256"), IconRel(lower, "32")>>,
                             !.resources = <<IconRel(lower, "32")>>]
              ELSE c
        c3 == IF o.iconExists /\ update /\ ~cross
              THEN [c2 EXCEPT !.icon = <<IconUser(o.iconDir)>>]
              ELSE c2
        c4 == IF winFamily
              THEN [c3 EXCEPT !.icon = [k \in 1..Len(c3.icon) |-> RelativizeIcon(h, c3.icon[k])]]
              ELSE c3
    IN  IF winFamily THEN EnsureWix(c4) ELSE c4

\* common.ts lines 146-212: the descriptor is settled and fs.writeFile called
\* with its bundle section for the platform configuration file
ConcSettle(i, cross, adopted) ==
    LET c == ConcSettled(host, cross, opts[i], conf, adopted)
    IN  /\ conf' = c
        /\ loc' = [loc EXCEPT ![i].cross = cross,
                              ![i].file = ConfigPathFor(host, cross),
                              ![i].pending = Has(BundleOf(c))]

(* build(), lines 629-651, and mergeTauriConfig up to its first await (common.ts
   40-67): the flag, the originals saved and the targets and wix removed on the
   cross path, then the name put into the shared descriptor; fs.stat of the
   icon is started *)
ConcBegin(i) ==
    /\ ConcStep(i, "idle", "stat", <<>>)
    /\ \E ic \in IconOptions :
       LET o == [name |-> ConcName(i), iconExists |-> ic.iconExists,
                 iconExt |-> ic.iconExt, iconDir |-> ic.iconDir]
           cross == ~IsWin(host)
           c0 == IF cross THEN crossDisable(conf) ELSE conf
       IN  /\ opts' = [opts EXCEPT ![i] = o]
           /\ envTarget' = IF cross THEN S_win ELSE envTarget
           /\ loc' = IF cross
                     THEN [loc EXCEPT ![i].originalTargets = conf.targets,
                                      ![i].originalWix = conf.wix]
                     ELSE loc
           /\ conf' = [c0 EXCEPT !.productName = o.name]
    /\ disk' = disk

(* mergeTauriConfig after fs.stat of the icon, lines 67-85, 117-123 or through
   to 209: the cross flag is computed; an .ico icon starts its first copy, a
   missing icon starts the look for the default icons, anything else goes on to
   settle the descriptor and to write the platform configuration file *)
ConcBranch(i) ==
    LET o == opts[i]
        cross == IsCrossCompilingWindows(host, envTarget, conf)
        winFamily == host = "win32" \/ cross
    IN  /\ pc[i] = "stat"
        /\ IF o.iconExists /\ winFamily /\ ToLowerCase(o.iconExt) = S_ico
           THEN /\ ConcStep(i, "stat", "copy32", <<>>)
                /\ loc' = [loc EXCEPT ![i].cross = cross]
                /\ conf' = conf
           ELSE IF ~o.iconExists /\ winFamily
           THEN /\ ConcStep(i, "stat", "stat32", <<>>)
                /\ loc' = [loc EXCEPT ![i].cross = cross]
                /\ conf' = conf
           ELSE /\ ConcStep(i, "stat", "plat_open", <<>>)
                /\ ConcSettle(i, cross, FALSE)
        /\ UNCHANGED <<disk, opts, envTarget>>

(* mergeTauriConfig, lines 123-124: the first default icon was found or not;
   the second is looked for *)
ConcStat256(i) ==
    /\ ConcStep(i, "stat32", "stat256", <<>>)
    /\ loc' = [loc EXCEPT ![i].default32 = IconRel(S_icon, "32") \in disk.png]
    /\ UNCHANGED <<conf, disk, opts, envTarget>>

(* mergeTauriConfig, lines 124-130 or through to 209: with both default icons
   the first copy starts, without them the descriptor is settled as it is *)
ConcDefault(i) ==
    /\ pc[i] = "stat256"
    /\ IF loc[i].default32 /\ IconRel(S_icon, "256") \in disk.png
       THEN /\ ConcStep(i, "stat256", "copy32", <<>>)
            /\ UNCHANGED <<conf, loc>>
       ELSE /\ ConcStep(i, "stat256", "plat_open", <<>>)
            /\ ConcSettle(i, loc[i].cross, FALSE)
    /\ UNCHANGED <<disk, opts, envTarget>>

(* mergeTauriConfig, lines 85-86 or 130-131: the first copy is made and the
   second starts *)
ConcCopy256(i) ==
    /\ ConcStep(i, "copy32", "copy256", <<>>)
    /\ disk' = [disk EXCEPT !.png = @ \cup {IconRel(ToLowerCase(opts[i].name), "32")}]
    /\ UNCHANGED <<conf, opts, loc, envTarget>>

(* mergeTauriConfig, lines 86-209 or 131-209: the second copy is made; the
   name-derived icons are adopted, the descriptor settled and the write of the
   platform configuration file started *)
ConcAdopt(i) ==
    /\ ConcStep(i, "copy256", "plat_open", <<>>)
    /\ disk' = [disk EXCEPT !.png = @ \cup {IconRel(ToLowerCase(opts[i].name), "256")}]
    /\ ConcSettle(i, loc[i].cross, TRUE)
    /\ UNCHANGED <<opts, envTarget>>

(* fs.writeFile, first half: the file is opened and truncated. When it cannot
   be opened the write rejects: inside mergeTauriConfig and at line 834 this
   makes build() throw, at line 717 it is caught with a warning and the making
   of the output directory starts *)
ConcOpen(i) ==
    /\ pc[i] \in {"plat_open", "conf_open", "win_open", "nat_open"}
    /\ \E ok \in BOOLEAN :
       IF ok
       THEN /\ ConcStep(i, pc[i], CASE pc[i] = "plat_open" -> "plat_data"
                                    [] pc[i] = "conf_open" -> "conf_data"
                                    [] pc[i] = "win_open"  -> "win_data"
                                    [] pc[i] = "nat_open"  -> "nat_data", <<>>)
            /\ disk' = ConcPut(disk, loc[i].file, NoFile, FALSE)
            /\ loc' = loc
       ELSE IF pc[i] = "win_open"
       THEN /\ ConcStep(i, pc[i], "mkdir", <<Ev("warn", "windows-config")>>)
            /\ disk' = disk
            /\ loc' = [loc EXCEPT ![i].pending = NoFile]
       ELSE /\ ConcStep(i, pc[i], "done", <<>>)
            /\ disk' = disk
            /\ loc' = [loc EXCEPT ![i].pending = NoFile, ![i].failed = TRUE]
    /\ UNCHANGED <<conf, opts, envTarget>>

(* fs.writeFile, second half: the content is put at the start of the file. On
   an empty file the file becomes the content; where another call has written
   since this call's truncation, the bytes beyond this content stay, and the
   file is the content or a mix of the two according to their lengths *)
ConcData(i) ==
    /\ pc[i] \in {"plat_data", "conf_data", "win_data", "nat_data"}
    /\ \E whole \in BOOLEAN :
       LET f == loc[i].file
       IN  /\ whole \/ ConcRead(disk, f).has \/ f \in disk.torn
           /\ disk' = IF whole THEN ConcPut(disk, f, loc[i].pending, FALSE)
                      ELSE ConcPut(disk, f, NoFile, TRUE)
    /\ ConcStep(i, pc[i], CASE pc[i] = "plat_data" -> "plat_written"
                            [] pc[i] = "conf_data" -> "merged"
                            [] pc[i] = "win_data"  -> "win_written"
                            [] pc[i] = "nat_data"  -> "written", <<>>)
    /\ loc' = [loc EXCEPT ![i].pending = NoFile]
    /\ UNCHANGED <<conf, opts, envTarget>>

(* mergeTauriConfig, lines 215-219: fs.writeFile is called with the shared
   descriptor as it is now, for tauri.conf.json *)
ConcWriteConf(i) ==
    /\ ConcStep(i, "plat_written", "conf_open", <<>>)
    /\ loc' = [loc EXCEPT ![i].file = "tauri.conf.json", ![i].pending = Has(conf)]
    /\ UNCHANGED <<conf, disk, opts, envTarget>>

(* build() after mergeTauriConfig returned. Cross path, lines 653-714: the
   saved targets and wix are put back, mingw-w64 is there, and the read of the
   Windows configuration file starts. Native path, lines 801-837: the target
   and the name are set and fs.writeFile is called for tauri.conf.json *)
ConcAfterMerge(i) ==
    /\ pc[i] = "merged"
    /\ IF ~IsWin(host)
       THEN /\ ConcStep(i, "merged", "win_read", <<>>)
            /\ checkMinGWInstalled(IsWin(host), tools)
            /\ conf' = crossRestore(loc[i].originalTargets, loc[i].originalWix, conf)
            /\ loc' = [loc EXCEPT ![i].restoredAt =
                          1 + Cardinality({j \in Procs : loc[j].restoredAt > 0})]
       ELSE LET name == opts[i].name
                tb0  == SelectTargetBundle(envInst)
                tb   == IF SwitchToNsis(name, tb0, ForceMsi(envForce)) THEN "nsis" ELSE tb0
                c1   == [conf EXCEPT !.targets = Has(<<tb>>), !.productName = name]
            IN  /\ ConcStep(i, "merged", "nat_open", <<>>)
                /\ conf' = c1
                /\ loc' = [loc EXCEPT ![i].file = "tauri.conf.json", ![i].pending = Has(c1)]
    /\ UNCHANGED <<disk, opts, envTarget>>

(* build(), cross path, lines 714-722: the Windows configuration file has been
   read. Parsed, it is written back with no targets; missing, unreadable or
   unparsable, a warning is logged and the making of the output directory
   starts *)
ConcRewrite(i) ==
    /\ pc[i] = "win_read"
    /\ \E readOk \in BOOLEAN :
       LET r == IF readOk THEN ConcRead(disk, "windows") ELSE NoFile
       IN  IF r.has
           THEN /\ ConcStep(i, "win_read", "win_open", <<>>)
                /\ loc' = [loc EXCEPT ![i].file = "windows",
                                      ![i].pending = Has([r.val EXCEPT !.targets = Has(<<>>)])]
           ELSE /\ ConcStep(i, "win_read", "mkdir", <<Ev("warn", "windows-config")>>)
                /\ loc' = loc
    /\ UNCHANGED <<conf, disk, opts, envTarget>>

(* build(), cross path, lines 717-726: the Windows configuration file is
   written; the making of the output png directory starts *)
ConcMkdir(i) ==
    /\ ConcStep(i, "win_written", "mkdir", <<>>)
    /\ UNCHANGED <<conf, disk, opts, loc, envTarget>>

(* build(), cross path, lines 726-738: the output png directory is made; the
   application's 32-pixel icon is looked for *)
ConcAccess32(i) ==
    /\ ConcStep(i, "mkdir", "access32", <<>>)
    /\ UNCHANGED <<conf, disk, opts, loc, envTarget>>

(* build(), cross path, lines 738-739: the 32-pixel icon to copy is the
   application's if it is there, else the default; the 256-pixel icon is
   looked for *)
ConcAccess256(i) ==
    /\ ConcStep(i, "access32", "access256", <<>>)
    /\ loc' = [loc EXCEPT ![i].iconsToCopy =
                 {IconToCopy(disk, ToLowerCase(opts[i].name), "32")}]
    /\ UNCHANGED <<conf, disk, opts, envTarget>>

(* build(), cross path, lines 739-742: the same for the 256-pixel icon; the
   first icon starts being copied next to the future executable *)
ConcOut32(i) ==
    /\ ConcStep(i, "access256", "out32", <<>>)
    /\ loc' = [loc EXCEPT ![i].iconsToCopy =
                 @ \cup {IconToCopy(disk, ToLowerCase(opts[i].name), "256")}]
    /\ UNCHANGED <<conf, disk, opts, envTarget>>

(* build(), cross path, lines 741-755: the first copy of the try block. Made,
   the icon is next to the future executable and the second copy starts;
   failed (its source is missing, or the copy itself fails), line 743 is
   skipped, the catch logs the warning and the external build is started *)
ConcOut256(i) ==
    /\ pc[i] = "out32"
    /\ \E copy32Ok \in BOOLEAN :
       LET got == CopiedIcons(disk, loc[i].iconsToCopy, ToLowerCase(opts[i].name),
                              copy32Ok, FALSE)
       IN  IF got # {}
           THEN /\ ConcStep(i, "out32", "out256", <<>>)
                /\ disk' = [disk EXCEPT !.outPng = @ \cup got]
           ELSE /\ ConcStep(i, "out32", "invoke", <<Ev("warn", "icon-copy")>>)
                /\ disk' = disk
    /\ UNCHANGED <<conf, opts, loc, envTarget>>

(* build(), cross path, lines 743-755: the second copy of the try block. Made,
   the second icon is there as well; failed, the catch logs the warning. Either
   way the external build is started *)
ConcExec(i) ==
    /\ pc[i] = "out256"
    /\ \E copy256Ok \in BOOLEAN :
       LET lower == ToLowerCase(opts[i].name)
           made  == copy256Ok /\ (\E ic \in loc[i].iconsToCopy : ic.tag = "256" /\ ic \in disk.png)
       IN  IF made
           THEN /\ ConcStep(i, "out256", "invoke", <<>>)
                /\ disk' = [disk EXCEPT !.outPng = @ \cup {<<lower, "256">>}]
           ELSE /\ ConcStep(i, "out256", "invoke", <<Ev("warn", "icon-copy")>>)
                /\ disk' = disk
    /\ UNCHANGED <<conf, opts, loc, envTarget>>

(* build(), native path, line 840: tauri.conf.json has been read back and
   parsed, or the read or the parse threw *)
ConcReadBack(i) ==
    /\ ConcStep(i, "written", "verify", <<>>)
    /\ \E readOk \in BOOLEAN :
          loc' = [loc EXCEPT ![i].readBack =
                     IF readOk THEN ConcRead(disk, "tauri.conf.json") ELSE NoFile]
    /\ UNCHANGED <<conf, disk, opts, envTarget>>

\* mutant: what is read back is not looked at
ConcVerify_Unchecked(i) ==
    /\ ConcStep(i, "verify", "invoke", <<>>)
    /\ UNCHANGED <<conf, disk, opts, loc, envTarget>>

(* build(), native path, lines 840-852: nothing parsed, or a name other than
   this call's in what was read back, makes build() throw; otherwise the
   external build is started *)
ConcVerify(i) ==
    /\ pc[i] = "verify"
    /\ IF loc[i].readBack.has /\ loc[i].readBack.val.productName = opts[i].name
       THEN /\ ConcStep(i, "verify", "invoke", <<>>)
            /\ UNCHANGED <<conf, disk, opts, loc, envTarget>>
       ELSE /\ ConcStep(i, "verify", "done", <<>>)
            /\ loc' = [loc EXCEPT ![i].failed = TRUE]
            /\ UNCHANGED <<conf, disk, opts, envTarget>>

(* the external build of line 755 or 852 reads tauri.conf.json as it is then *)
ConcInvoke(i) ==
    /\ ConcStep(i, "invoke", "done", <<>>)
    /\ loc' = [loc EXCEPT ![i].built = TRUE,
                          ![i].builtWith = ConcRead(disk, "tauri.conf.json")]
    /\ UNCHANGED <<conf, disk, opts, envTarget>>

ConcNext ==
    \E i \in Procs :
        \/ ConcBegin(i)
        \/ ConcBranch(i)
        \/ ConcStat256(i)
        \/ ConcDefault(i)
        \/ ConcCopy256(i)
        \/ ConcAdopt(i)
        \/ ConcOpen(i)
        \/ ConcData(i)
        \/ ConcWriteConf(i)
        \/ ConcAfterMerge(i)
        \/ ConcRewrite(i)
        \/ ConcMkdir(i)
        \/ ConcAccess32(i)
        \/ ConcAccess256(i)
        \/ ConcOut32(i)
        \/ ConcOut256(i)
        \/ ConcExec(i)
        \/ ConcReadBack(i)
        \/ ConcVerify(i)
        \/ ConcInvoke(i)

ConcSpec == ConcInit /\ [][ConcNext]_vars

----------------------------------------------------------------------------
(* The Linux package-name check on its own: one call of mergeTauriConfig on a
   Linux host, with names made of a lowercase letter, a digit, a dash and an
   uppercase letter *)

\* longest name the Linux check is tried with
MaxLinuxNameLen == 4

LinuxNameInit ==
    /\ host = "linux"
    /\ tools = {}
    /\ envTarget = Undefined
    /\ envInst = Undefined
    /\ envForce = Undefined
    /\ conf = BaseConf(None, None)
    /\ disk = InitDisk
    /\ opts \in { [name |-> n, iconExists |-> FALSE, iconExt |-> S_ico,
                  iconDir |-> "elsewhere"] :
                    \* the names of the code units of a, 1, - and A
                    n \in SeqsUpTo({97, 49, 45, 65}, MaxLinuxNameLen) }
    /\ loc = NoLoc
    /\ call = "name"
    /\ pc = "name_call"
    /\ exit = Running
    /\ trace = <<>>

(* mergeTauriConfig(url, options, tauriConf) with the name drawn, every file
   operation succeeding *)
LinuxNameCall ==
    /\ pc = "name_call"
    /\ LET r == mergeTauriConfig(host, envTarget, opts, conf, disk,
                                  [copy32 |-> TRUE, copy256 |-> TRUE,
                                   writePlat |-> TRUE, writeConf |-> TRUE])
       IN  /\ conf' = r.conf
           /\ disk' = r.disk
           /\ trace' = r.events
           /\ exit' = r.exit
    /\ pc' = "name_done"
    /\ UNCHANGED <<host, tools, envTarget, envInst, envForce, opts, loc, call>>

LinuxNameNext == LinuxNameCall

LinuxNameSpec == LinuxNameInit /\ [][LinuxNameNext]_vars

----------------------------------------------------------------------------
(* Properties *)

\* the external build commands of the running call, in order
Execs == SelectSeq(trace, LAMBDA e : e.k = "exec")

Occurs(e) == \E i \in 1..Len(trace) : trace[i] = e

InBuild == call = "build"

BuildEnded == call = "build" /\ pc = "end"

\* the state an external build command leaves: it ran, and nothing else since
JustInvoked ==
    \/ pc \in {"native_search", "native_fallback", "cross_post"}
    \/ pc = "end" /\ trace # <<>> /\ trace[Len(trace)] = Ev("failed", "exec")

MsiEnv == envInst \in {S_msi, S_MSI}

\* C1: native build, msi the final target, the build succeeded, no .msi in
\* bundle/msi: one more build, with nsis, is run before build() declares failure.
C1_RebuildBeforeFailure ==
    (BuildEnded /\ IsWin(host) /\ Occurs(Ev("warn", "msi-not-found"))
                /\ Occurs(Ev("error", "no-installer-found")))
        => (Len(Execs) = 2 /\ Execs[2] = ExecEvent("nsis"))

\* C2 as stated: a failed msi build is followed by exactly one nsis build, for
\* every product name.
C2_FallbackForEveryName ==
    (BuildEnded /\ IsWin(host) /\ Len(Execs) >= 1 /\ Execs[1] = ExecEvent("msi")
                /\ Occurs(Ev("failed", "exec")))
        => (Len(Execs) = 2 /\ Execs[2] = ExecEvent("nsis"))

\* C2 as amended: a failed msi build is followed by exactly one nsis build when
\* the name has a non-ASCII character and the descriptor could be rewritten;
\* a failure of that build is fatal; for an ASCII name the first failure is fatal
\* and nothing is retried.
C2_FallbackForNonAsciiName ==
    (BuildEnded /\ IsWin(host) /\ Len(Execs) >= 1 /\ Execs[1] = ExecEvent("msi")
                /\ Occurs(Ev("failed", "exec")))
        => IF ContainsNonAscii(opts.name)
           THEN \/ /\ Len(Execs) = 2
                   /\ Execs[2] = ExecEvent("nsis")
                   /\ (trace[Len(trace)] = Ev("failed", "exec") => exit = Thrown)
                \/ /\ Len(Execs) = 1
                   /\ trace[Len(trace)] = Ev("warn", "msi-build-failed")
                   /\ exit = Thrown
           ELSE Len(Execs) = 1 /\ exit = Thrown

C2_Witness ==
    /\ BuildEnded /\ IsWin(host) /\ ContainsNonAscii(opts.name)
    /\ Execs = <<ExecEvent("msi"), ExecEvent("nsis")>>
    /\ trace[Len(trace)] = Ev("failed", "exec")
    /\ exit = Thrown

\* C3: a build() call runs the external build command at most twice; a second
\* run follows a first run with msi and is a run with nsis.
C3_AtMostOneRetry ==
    InBuild => /\ Len(Execs) <= 2
               /\ Len(Execs) = 2 => (Execs[1] = ExecEvent("msi") /\ Execs[2] = ExecEvent("nsis"))
               /\ ~IsWin(host) => Len(Execs) <= 1

C3_Witness == InBuild /\ Len(Execs) = 2 /\ pc = "native_search"

\* C4: native build, non-ASCII name, msi requested, not forced: the descriptor
\* in tauri.conf.json and the external build use nsis, and the warning about
\* the substitution precedes the build.
C4_NonAsciiMsiBecomesNsis ==
    (InBuild /\ IsWin(host) /\ ContainsNonAscii(opts.name) /\ MsiEnv /\ envForce # S_one
             /\ Len(Execs) >= 1)
        => /\ \A i \in 1..Len(Execs) : Execs[i] = ExecEvent("nsis")
           /\ disk.confJson.has
           /\ disk.confJson.val.targets = Has(<<"nsis">>)
           /\ conf.targets = Has(<<"nsis">>)
           /\ \E i, j \in 1..Len(trace) :
                /\ i < j
                /\ trace[i] = Ev("warn", "msi-switched-to-nsis")
                /\ trace[j].k = "exec"
                /\ \A k \in 1..(j - 1) : trace[k].k # "exec"

C4_Witness ==
    /\ InBuild /\ IsWin(host) /\ ContainsNonAscii(opts.name) /\ MsiEnv /\ envForce = S_true
    /\ Len(Execs) = 1

\* C5: native build: when the external build is invoked the descriptor's target
\* list has exactly one element, nsis or msi, the one being built; it is nsis
\* unless PAKE_WINDOWS_INSTALLER is msi in some letter case.
C5_SingleTarget ==
    (InBuild /\ IsWin(host) /\ JustInvoked)
        => /\ conf.targets.has
           /\ Len(conf.targets.val) = 1
           /\ conf.targets.val[1] \in {"nsis", "msi"}
           /\ Execs[Len(Execs)] = ExecEvent(conf.targets.val[1])
           /\ disk.confJson.val.targets = conf.targets
           /\ ~MsiEnv => conf.targets.val = <<"nsis">>

C5_Witness ==
    /\ InBuild /\ IsWin(host) /\ JustInvoked /\ Len(Execs) = 1 /\ envInst = S_MSI
    /\ conf.targets.val = <<"msi">>

\* C6 as stated: cross build without mingw-w64: build() ends the process before
\* the external build, with a status no other kind of failure uses (a failed
\* Rust installation is another kind), having written no file.
C6_NothingWritten ==
    (BuildEnded /\ ~IsWin(host) /\ Occurs(Ev("error", "mingw-missing")))
        => /\ Execs = <<>>
           /\ exit.kind = "exit"
           /\ exit # installRustExit(FALSE)
           /\ \A i \in 1..Len(trace) : trace[i].k # "write"

\* C6 as amended: cross build without mingw-w64, mergeTauriConfig completed:
\* build() ends the process with status 1, the status of a failed Rust
\* installation, and the external build is never invoked; the Windows
\* configuration file and tauri.conf.json have been written by then,
\* .cargo/config.toml has been written or its failed write warned about, and
\* nothing has been copied to the working directory.
C6_ExitsBeforeBuild ==
    (InBuild /\ ~IsWin(host) /\ ~("x86_64-w64-mingw32-gcc" \in tools)
             /\ ~("i686-w64-mingw32-gcc" \in tools))
        => /\ Execs = <<>>
           /\ disk.dist = {}
           /\ pc \in {"cross_mingw", "end"}
           /\ (pc = "end" /\ Occurs(Ev("write", "tauri.conf.json")))
                => /\ exit = Exited(1)
                   /\ exit = installRustExit(FALSE)
                   /\ disk.confJson.has
                   /\ disk.platConf["windows"].has
                   /\ Occurs(Ev("error", "mingw-missing"))
                   /\ IF Occurs(Ev("write", ".cargo/config.toml")) THEN disk.cargo
                      ELSE Occurs(Ev("warn", "cargo-config-failed"))

C6_Witness ==
    /\ BuildEnded /\ ~IsWin(host) /\ exit = Exited(1)
    /\ Occurs(Ev("error", "mingw-missing")) /\ disk.confJson.has /\ disk.cargo

\* a name outside the grammar of the host: on Linux anything but lower-case
\* letters, digits and dashes, or nothing; on Windows nothing but blanks
GrammarViolation(h, name) ==
    IF h = "linux"
    THEN name = <<>> \/ \E i \in 1..Len(name) :
                          ~(name[i] \in 97..122 \/ name[i] \in 48..57 \/ name[i] = 45)
    ELSE IF h = "win32" THEN \A i \in 1..Len(name) : name[i] = 32
    ELSE FALSE

\* C7: a name that violates the grammar of the host ends mergeTauriConfig
\* before any file is written and before any external command is run.
C7_IllegalNameWritesNothing ==
    (InBuild /\ GrammarViolation(host, opts.name))
        => /\ pc = "end"
           /\ exit.kind = "exit"
           /\ disk = InitDisk
           /\ \A i \in 1..Len(trace) : trace[i].k \notin {"write", "exec", "install"}

C7_Witness ==
    /\ InBuild /\ host = "linux" /\ opts.name = <<65, 97>> /\ pc = "end" /\ exit.kind = "exit"

\* C8: a fatal user-input termination ends the process with a status other
\* than 0, the status of a successful run.
C8_FatalExitNonZero == exit.kind = "exit" => exit.code # 0

\* C9 as stated: after the user declines the Rust installation nothing more is
\* probed, asked or run.
C9_NothingAfterRefusal ==
    call = "prepare" =>
        \A i, j \in 1..Len(trace) :
            (i < j /\ trace[i] = Ev("prompt", "rust:no"))
                => trace[j].k \notin {"probe", "prompt", "install"}

\* C9 as amended: after the user declines the Rust installation prepare() never
\* returns normally and Rust is not installed; the process ends with status 2,
\* after the remaining checks of the host's path have been made.
C9_RefusalIsFatal ==
    (call = "prepare" /\ Occurs(Ev("prompt", "rust:no")))
        => /\ pc # "prepared"
           /\ ~Occurs(Ev("install", "rust"))
           /\ pc = "end" => /\ exit = Exited(2)
                            /\ IF IsWin(host)
                               THEN Occurs(Ev("probe", "msvc")) /\ Occurs(Ev("probe", "wix"))
                               ELSE Occurs(Ev("probe", "gnutarget")) /\ Occurs(Ev("probe", "mingw"))

C9_Witness ==
    /\ call = "prepare" /\ pc = "end" /\ exit = Exited(2) /\ ~IsWin(host)
    /\ \E i, j \in 1..Len(trace) :
         i < j /\ trace[i] = Ev("prompt", "rust:no") /\ trace[j] = Ev("install", "gnutarget")

\* C10 as stated: every command of prepare() that installs software follows an
\* affirmative answer to a prompt for it.
C10_InstallsAreConfirmed ==
    call = "prepare" =>
        \A j \in 1..Len(trace) :
            trace[j].k = "install"
                => \E i \in 1..(j - 1) :
                     trace[i] = Ev("prompt", IF trace[j].a = "rust" THEN "rust:yes"
                                             ELSE "gnutarget:yes")

\* C10 as amended: the Rust installation is run only right after an affirmative
\* answer to its prompt; the rustup target installation is run unasked, right
\* after the failed probe of the target.
C10_RustInstallIsConfirmed ==
    call = "prepare" =>
        \A j \in 1..Len(trace) :
            /\ trace[j] = Ev("install", "rust")
                 => (j > 1 /\ trace[j - 1] = Ev("prompt", "rust:yes"))
            /\ trace[j] = Ev("install", "gnutarget")
                 => (j > 2 /\ trace[j - 1] = Ev("warn", "gnutarget-missing")
                           /\ trace[j - 2] = Ev("probe", "gnutarget")
                           /\ ~IsWin(host))

C10_Witness ==
    /\ call = "prepare"
    /\ Occurs(Ev("install", "rust"))
    /\ Occurs(Ev("install", "gnutarget"))
    /\ pc = "prepared"

\* C11: mingw-w64 is only recommended: on a host that is not Windows, with every
\* required tool present and mingw-w64 absent, a build() that follows prepare()
\* and whose configuration step completed does not end before the external
\* build has been invoked.
C11_BuildReachedWithoutMinGW ==
    (BuildEnded /\ ~IsWin(host) /\ ~checkMinGWInstalled(IsWin(host), tools)
                /\ checkRustInstalled(tools) /\ checkRustWindowsGnuTarget(tools)
                /\ Occurs(Ev("write", "tauri.conf.json")))
        => Len(Execs) >= 1

\* C12: on the native and on the cross path, a build() whose external build
\* succeeded never returns normally without an artifact: when it returns, the
\* artifact has been copied to the output path.
C12_NoReturnWithoutArtifact ==
    (BuildEnded /\ exit = Returned /\ Len(Execs) >= 1) => disk.dist # {}

\* an external build command of the running call that exited with status 0,
\* at position i of the trace
SucceededAt(i) ==
    /\ trace[i].k = "exec"
    /\ (i < Len(trace) => trace[i + 1] # Ev("failed", "exec"))

\* what the search for the artifact and its copy leave in the trace
SearchEvents ==
    { Ev("warn", "msi-not-found"), Ev("error", "no-installer-found"),
      Ev("error", "output-not-found"), Ev("write", "dist") }

\* C13: the stages of build() are ordered. An external build is invoked only
\* after both configuration files have been persisted; the artifact is searched
\* and copied only after an external build of this call exited with status 0;
\* and a failed external build that no fallback follows makes build() fail
\* with nothing copied.
C13_StagesOrdered ==
    InBuild =>
        /\ \A j \in 1..Len(trace) :
              trace[j].k = "exec"
                => /\ \E i \in 1..(j - 1) : trace[i] = Ev("write", "windows")
                   /\ \E i \in 1..(j - 1) : trace[i] = Ev("write", "tauri.conf.json")
                   /\ disk.platConf["windows"].has
                   /\ disk.confJson.has
        /\ \A j \in 1..Len(trace) :
              trace[j] \in SearchEvents => \E i \in 1..(j - 1) : SucceededAt(i)
        /\ disk.dist # {} => \E i \in 1..Len(trace) : SucceededAt(i)
        /\ (pc = "end" /\ trace # <<>> /\ trace[Len(trace)] = Ev("failed", "exec"))
              => (exit = Thrown /\ disk.dist = {})

\* a first build failed, its fallback succeeded, and the installer was copied
C13_Witness ==
    /\ BuildEnded
    /\ Len(Execs) = 2
    /\ Occurs(Ev("failed", "exec"))
    /\ Occurs(Ev("write", "dist"))
    /\ disk.dist # {}

\* C14: on the cross path, once the external build has been invoked, the
\* persisted Windows configuration has an empty target list (so no msi), and
\* the one command run is the plain compile command, cargo build.
C14_CrossBuildsNoBundle ==
    (InBuild /\ ~IsWin(host) /\ Len(Execs) >= 1)
        => /\ disk.platConf["windows"].has
           /\ disk.platConf["windows"].val.targets = Has(<<>>)
           /\ Execs = <<Ev("exec", "cargo-build")>>

\* the command has just run, the shared descriptor lists msi again, and the
\* rewrite of the Windows configuration before the command had failed
C14_Witness ==
    /\ InBuild
    /\ ~IsWin(host)
    /\ pc = "cross_post"
    /\ Execs = <<Ev("exec", "cargo-build")>>
    /\ conf.targets = Has(<<"msi", "updater">>)
    /\ Occurs(Ev("warn", "windows-conf"))

\* the platform configuration file of the host's own platform
HostConfigPath == IF host = "win32" THEN "windows" ELSE IF host = "darwin" THEN "macos" ELSE "linux"

\* C15: after a cross build has finished, a later build for the host's own,
\* non-Windows platform in the same process is resolved as not cross-compiling:
\* its configuration goes to the host's configuration file and not to the
\* Windows one.
C15_LaterBuildNotCross ==
    (call = "later" /\ pc = "later_configured")
        => /\ Occurs(Ev("write", HostConfigPath))
           /\ ~Occurs(Ev("write", "windows"))

\* C16: on a host that is not Windows, one call of mergeTauriConfig writes the
\* Windows configuration file exactly when PAKE_TARGET_PLATFORM is 'win'; with
\* the flag not set it writes the host's own configuration file, whatever the
\* target list of the descriptor passed in.
C16_FlagDecidesConfigPath ==
    (call = "merge" /\ pc = "merge_done" /\ exit = Running /\ ~IsWin(host))
        => /\ Occurs(Ev("write", "windows")) <=> envTarget = S_win
           /\ envTarget # S_win => Occurs(Ev("write", HostConfigPath))

\* whether a warn-level message is in the trace
Warned == \E i \in 1..Len(trace) : trace[i].k = "warn"

\* the name-derived icon pair of the options of the call
AppIcons == <<IconRel(ToLowerCase(opts.name), "256"), IconRel(ToLowerCase(opts.name), "32")>>

\* C17: for an options.icon that does not exist, on every host and in
\* both modes, the persisted descriptor references an icon and a warn-level
\* message has been recorded.
C17_MissingIconWarnedAndReplaced ==
    (call = "merge" /\ pc = "merge_done" /\ exit = Running /\ ~opts.iconExists)
        => (disk.confJson.val.icon # <<>> /\ Warned)

\* C18: for a Windows build (Windows host or cross-compiling), no icon path of
\* the persisted descriptor is absolute, a user's .ico adopted on a Windows
\* host included.
C18_WindowsIconsRelative ==
    (call = "merge" /\ pc = "merge_done" /\ exit = Running
                    /\ Occurs(Ev("write", "windows")))
        => \A i \in 1..Len(disk.confJson.val.icon) : ~disk.confJson.val.icon[i].abs

\* C19: the name-derived icon files png/<name>_32.ico and png/<name>_256.ico
\* that the written descriptor references exist on disk when it is written:
\* they are referenced only if their copy succeeded.
C19_ReferencedIconsExist ==
    (call = "merge" /\ pc = "merge_done" /\ exit = Running)
        => \A i \in 1..Len(disk.confJson.val.icon) :
              disk.confJson.val.icon[i] \in {AppIcons[1], AppIcons[2]}
                => disk.confJson.val.icon[i] \in disk.png

\* C20: on the native path, with the WiX probe false (prepare() having been
\* continued without WiX), build() neither writes a descriptor whose target is
\* msi nor runs an msi build, whatever the installer override.
C20_NoMsiWithoutWiX ==
    (InBuild /\ IsWin(host) /\ ~checkWiXInstalled(IsWin(host), tools))
        => /\ \A i \in 1..Len(Execs) : Execs[i] # ExecEvent("msi")
           /\ Occurs(Ev("info", "target-set"))
                => ~(disk.confJson.has /\ disk.confJson.val.targets = Has(<<"msi">>))

\* C21: on every host, mergeTauriConfig called with an empty name ends the
\* process before persisting anything: no configuration file is written, so no
\* descriptor with an empty productName is.
C21_EmptyNameWritesNothing ==
    (call = "merge" /\ pc = "merge_done" /\ opts.name = <<>>)
        => /\ exit.kind = "exit"
           /\ ~disk.confJson.has
           /\ \A p \in {"windows", "macos", "linux"} : ~disk.platConf[p].has

\* how many times tauri.conf.json has been written in the running call
ConfWrites == Len(SelectSeq(trace, LAMBDA e : e = Ev("write", "tauri.conf.json")))

\* C22: a build() in which a write of a configuration file failed
\* before the external build, the cross path's rewrite of the Windows
\* configuration included, never invokes the external build.
C22_NoBuildAfterFailedWrite ==
    (InBuild /\ Occurs(Ev("warn", "windows-conf"))) => Execs = <<>>

\* which probe the call was of, and what it did
Probed(which) == call = "probe" /\ pc = "probed" /\ trace[1] = Ev("probe", which)

Spawned == SelectSeq(trace, LAMBDA e : e.k = "spawn")

\* C23: a Windows-only probe (checkMSVCInstalled, checkWiXInstalled) called on
\* a host that is not Windows returns false and runs no external command; on a
\* Windows host it looks on the search path and then, if nothing was found, in
\* the well-known directories.
C23_WindowsOnlyProbes ==
    (Probed("msvc") \/ Probed("wix"))
        => IF ~IsWin(host)
           THEN Occurs(Ev("result", "false")) /\ Spawned = <<>>
           ELSE /\ Len(Spawned) = 2
                /\ Occurs(Ev("result", "true"))
                     <=> IF Probed("msvc")
                         THEN {"cl.exe", "link.exe", "vsdir"} \cap tools # {}
                         ELSE {"candle.exe", "light.exe", "wixdir"} \cap tools # {}

\* the install commands run in the running call
InstallSpawns ==
    SelectSeq(trace, LAMBDA e : e \in {Ev("spawn", installRustCommand(TRUE)),
                                        Ev("spawn", installRustCommand(FALSE))})

\* C24: a call of installRust runs the install command of the platform exactly
\* once; if the command fails the process ends with a non-zero status, and if
\* it succeeds installRust returns and prepare() goes on.
C24_InstallOnceOrExit ==
    call = "prepare" =>
        \A j \in 1..Len(trace) :
            trace[j] = Ev("install", "rust")
                => /\ InstallSpawns = <<Ev("spawn", installRustCommand(IsWin(host)))>>
                   /\ j < Len(trace)
                   /\ trace[j + 1] = Ev("spawn", installRustCommand(IsWin(host)))
                   /\ IF j + 2 <= Len(trace) /\ trace[j + 2] = Ev("error", "install-failed")
                      THEN /\ Len(trace) = j + 2
                           /\ pc = "end"
                           /\ exit.kind = "exit"
                           /\ exit.code # 0
                      ELSE /\ Len(trace) = j + 1
                             => (exit = Running /\ pc \in {"prep_msvc", "prep_gnu"})
                           /\ exit.kind = "exit" => exit.code = 2

\* the installation failed and ended the process
C24_Witness ==
    /\ call = "prepare"
    /\ Occurs(Ev("install", "rust"))
    /\ Occurs(Ev("error", "install-failed"))
    /\ Len(InstallSpawns) = 1
    /\ exit = Exited(1)

\* the argument and the outcome of the call of create
CreateArg == trace[1]
CreateOutcome == [kind |-> trace[Len(trace)].k, what |-> trace[Len(trace)].a]

\* the builder of the host, or the error for a host that has none
HostVariant ==
    IF host = "darwin" THEN Builder("mac")
    ELSE IF host = "win32" THEN Builder("win")
    ELSE IF host = "linux" THEN Builder("linux")
    ELSE CreateError("unsupported-host")

\* C25 as stated: create returns the variant of an explicit target mac, win or
\* linux whatever the host, throws for any other explicit target, and with the
\* target left out returns the variant of the host or throws for a host that
\* has none.
C25_VariantByTargetOrHost ==
    (call = "create" /\ pc = "created")
        => CreateOutcome =
             IF CreateArg.given
             THEN (IF CreateArg.a \in {"mac", "win", "linux"} THEN Builder(CreateArg.a)
                   ELSE CreateError("unsupported-target"))
             ELSE HostVariant

\* C25 as amended: as stated, but an explicit target that is the empty string
\* is treated as a target left out: the variant is inferred from the host.
C25_VariantByTruthyTargetOrHost ==
    (call = "create" /\ pc = "created")
        => CreateOutcome =
             IF CreateArg.given /\ CreateArg.a # ""
             THEN (IF CreateArg.a \in {"mac", "win", "linux"} THEN Builder(CreateArg.a)
                   ELSE CreateError("unsupported-target"))
             ELSE HostVariant

\* the Windows builder asked for on a Linux host, with the notice
C25_Witness ==
    /\ call = "create"
    /\ pc = "created"
    /\ host = "linux"
    /\ CreateArg.given
    /\ CreateArg.a = "win"
    /\ CreateOutcome = Builder("win")
    /\ Len(trace) = 3
    /\ exit = Returned

\* what the discovery of the native path locates, for the format being built,
\* when the two directories are listed as nsisFiles and msiFiles: the format
\* and the file
DiscoverNative(nsisFiles, msiFiles) ==
    LET nsis == FindNsis(nsisFiles)
        msi  == FindMsi(opts.name, conf, msiFiles)
    IN  IF loc.targetBundle = "msi" /\ msi.has THEN <<"msi", msi.val>>
        ELSE IF nsis.has THEN <<"nsis", nsis.val>>
        ELSE <<"none", <<>>>>

\* the same for the cross path
DiscoverCross ==
    IF FirstCandidate(disk.crossOut) = 0 THEN <<"none", <<>>>>
    ELSE <<"cross", <<FirstCandidate(disk.crossOut)>>>>

\* what a discovery run on the disk as it is now may locate
Discoveries ==
    IF IsWin(host)
    THEN { DiscoverNative(nsisFiles, msiFiles) :
             nsisFiles \in Readdir(disk.nsisDir), msiFiles \in Readdir(disk.msiDir) }
    ELSE { DiscoverCross }

SourceExists(f) ==
    IF f.from = "nsis"
    THEN disk.nsisDir.has /\ \E i \in 1..Len(disk.nsisDir.val) : disk.nsisDir.val[i] = f.src
    ELSE IF f.from = "msi"
    THEN disk.msiDir.has /\ \E i \in 1..Len(disk.msiDir.val) : disk.msiDir.val[i] = f.src
    ELSE f.src[1] \in disk.crossOut

\* the format of the located file: on the cross path the second candidate is
\* the setup installer of bundle/nsis, the others count as bare executables
LocatedFormat(f) ==
    IF f.from = "cross" THEN (IF f.src = <<2>> THEN "nsis" ELSE "exe") ELSE f.from

\* C27: on success the located artifact has been copied, not moved, to a file
\* named after the application, with the suffix of the format of the located
\* file: -setup.exe for an nsis installer, .msi for an msi installer, .exe for
\* a bare executable.
C27_CopiedWithFormatSuffix ==
    (BuildEnded /\ exit = Returned)
        => \A f \in disk.dist :
              /\ SourceExists(f)
              /\ f.file = opts.name \o (IF LocatedFormat(f) = "nsis" THEN S_dashSetupExe
                                       ELSE IF LocatedFormat(f) = "msi" THEN S_dmsi
                                       ELSE S_exe)

\* C28: a build on a Windows host never delivers a bare executable: whatever it
\* copies to the output path was located in bundle/nsis, as an .exe whose name
\* contains "setup", or in bundle/msi, as an .msi, and when it returns it has
\* copied such a file; a file from the cross path's candidates is delivered
\* only on a host that is not Windows.
C28_NativeDeliversInstaller ==
    InBuild =>
        /\ IsWin(host) =>
             /\ \A f \in disk.dist :
                   /\ f.from \in {"nsis", "msi"}
                   /\ SourceExists(f)
                   /\ f.from = "nsis"
                        => /\ EndsWith(ToLowerCase(f.src), S_exe)
                           /\ Includes(ToLowerCase(f.src), S_setup)
                   /\ f.from = "msi" => EndsWith(ToLowerCase(f.src), S_dmsi)
             /\ (pc = "end" /\ exit = Returned) => disk.dist # {}
        /\ \A f \in disk.dist : f.from = "cross" => ~IsWin(host)

\* an msi build on a Windows host that delivered the .msi
C28_Witness ==
    /\ BuildEnded
    /\ IsWin(host)
    /\ exit = Returned
    /\ loc.targetBundle = "msi"
    /\ \E f \in disk.dist : f.from = "msi" /\ f.file = opts.name \o S_dmsi

\* both calls of the concurrent run have ended
ConcEnded == call = "concurrent" /\ \A i \in Procs : pc[i] = "done"

\* the external build of call i found in tauri.conf.json the name given to the
\* other call
ForeignName(i) ==
    /\ loc[i].builtWith.has
    /\ loc[i].builtWith.val.productName # ConcName(i)

\* cross path, both calls ended: the shared descriptor's targets or wix section
\* are not what they were before the calls
NotRestored ==
    /\ ConcEnded
    /\ ~IsWin(host)
    /\ (conf.targets # ConcBase.targets \/ conf.wix # ConcBase.wix)

\* call j was the last to put back what it had saved (lines 654-662)
RestoredLast(j) ==
    /\ loc[j].restoredAt > 0
    /\ \A i \in Procs : loc[i].restoredAt <= loc[j].restoredAt

\* call j saved its originals (lines 639-640) while the other call's edit of
\* line 644 was in place
SavedEdited(j) ==
    /\ loc[j].restoredAt > 0
    /\ loc[j].originalTargets # ConcBase.targets

\* C29: two calls of build() on the shared descriptor that interleave at their
\* awaits reach a bad state: when a call enters build() while the other call's
\* edit of the shared descriptor is in place, and is the last to restore, then
\* after both calls have ended the descriptor's targets are not the original
\* ones
C29_OverlapLeavesUnrestored ==
    (ConcEnded /\ ~IsWin(host))
        => \A j \in Procs :
              (RestoredLast(j) /\ SavedEdited(j)) => (NotRestored /\ conf.targets = Has(<<>>))

\* a cross-path run of that kind in which no file operation failed and both
\* calls started their external build, one of them finding the other call's
\* name in tauri.conf.json
C29_Witness ==
    /\ NotRestored
    /\ \E j \in Procs : RestoredLast(j) /\ SavedEdited(j)
    /\ \A i \in Procs : loc[i].built /\ ~loc[i].failed
    /\ \E i \in Procs : ForeignName(i)

\* a native run in which a call's external build found the other call's name
C29_WitnessNative ==
    /\ ConcEnded
    /\ IsWin(host)
    /\ \E i \in Procs : ForeignName(i)

\* the grammar of the error message of line 45: not empty, only lowercase
\* letters, digits and dashes, and at least one lowercase letter
StatedLinuxGrammar(name) ==
    /\ Len(name) > 0
    /\ \A i \in 1..Len(name) : IsLower(name[i]) \/ IsDigit(name[i]) \/ IsDash(name[i])
    /\ \E i \in 1..Len(name) : IsLower(name[i])

\* mergeTauriConfig went past the name check
NameAccepted == exit = Running /\ Occurs(Ev("write", "tauri.conf.json"))

\* C30: on Linux, mergeTauriConfig accepts a name if and only if it is not
\* empty, is made of lowercase letters, digits and dashes only, and has at
\* least one lowercase letter
C30_LinuxAcceptsExactlyGrammar ==
    (call = "name" /\ pc = "name_done") =>
        (NameAccepted <=> StatedLinuxGrammar(opts.name))

\* what does hold: every accepted name is in the stated grammar
LinuxAcceptedInGrammar ==
    (call = "name" /\ pc = "name_done" /\ NameAccepted) => StatedLinuxGrammar(opts.name)

\* a name of the stated grammar, 1-a, is rejected
LinuxGrammarNameRejected ==
    call = "name" /\ pc = "name_done" /\ opts.name = <<49, 45, 97>> /\ exit = Exited(0)

\* the build is on the cross-compilation path
CrossBuild == call = "build" /\ ~IsWin(host)

IconWarned == Occurs(Ev("warn", "icon-copy"))

\* build() threw for a reason that is not an icon step: a configuration file
\* not written, the external build failed, or the executable found not copied
ThrownForOtherCause ==
    \/ ~Occurs(Ev("write", "tauri.conf.json"))
    \/ Occurs(Ev("failed", "exec"))
    \/ (FirstCandidate(disk.crossOut) # 0 /\ ~Occurs(Ev("write", "dist")))

\* C31: on the cross path a failed optional icon step (mkdir of the output png
\* directory, icon copy before or after the build, icon copy inside
\* mergeTauriConfig) never makes build() fail, and each one is recorded as a
\* warning
C31_IconFailuresWarned ==
    CrossBuild =>
        /\ (exit = Thrown => ThrownForOtherCause)
        /\ (loc.swallowed # {} => IconWarned)

\* the candidates examined, in the order they were
Accessed == SelectSeq(trace, LAMBDA e : e.k = "access")

\* the files copied to the working directory from the cross output
CrossCopies == {f \in disk.dist : f.from = "cross"}

\* the least position among the candidates that exist
LeastCandidate(out) == CHOOSE k \in out : \A j \in out : k <= j

\* C32: on the cross path the artifact is the first existing file of
\* [release/<name>.exe, bundle/nsis/<name>_<version>_x64-setup.exe,
\* bundle/nsis/<name>_<version>_x64.exe]; exactly one copy is made, and the
\* candidates after the one found are not examined
C32_FirstCandidateCopiedOnce ==
    (CrossBuild /\ pc = "end" /\ exit = Returned /\ disk.crossOut # {}) =>
        LET k == LeastCandidate(disk.crossOut)
        IN  /\ CrossCopies = {DistFile(opts.name, S_exe, "cross", <<k>>)}
            /\ Len(SelectSeq(trace, LAMBDA e : e = Ev("write", "dist"))) = 1
            /\ Accessed = [i \in 1..k |-> Ev("access", CandidatePath(i))]

\* all three candidates exist: the first was copied and no other examined
C32_Witness ==
    /\ CrossBuild
    /\ pc = "end"
    /\ exit = Returned
    /\ disk.crossOut = {1, 2, 3}
    /\ CrossCopies = {DistFile(opts.name, S_exe, "cross", <<1>>)}
    /\ Len(Accessed) = 1

\* the second and third exist: the first was examined, the second copied
C32_WitnessSecond ==
    /\ CrossBuild
    /\ pc = "end"
    /\ exit = Returned
    /\ disk.crossOut = {2, 3}
    /\ CrossCopies = {DistFile(opts.name, S_exe, "cross", <<2>>)}
    /\ Len(Accessed) = 2

\* C33: when the configuration step of a cross build has returned, the shared
\* descriptor's target list and wix section are what they were before the
\* call, whatever the descriptor was, a missing list or section included
C33_CrossMergeRestores ==
    [][(pc = "prepared" /\ pc' = "cross_mingw") =>
          (conf'.targets = conf.targets /\ conf'.wix = conf.wix)]_vars

\* what does hold: a target list and a wix section that were there are put back
CrossMergeRestoresPresent ==
    [][(pc = "prepared" /\ pc' = "cross_mingw") =>
          /\ (conf.targets.has => conf'.targets = conf.targets)
          /\ (conf.wix.has => conf'.wix = conf.wix)]_vars

\* a descriptor that had neither comes back with an empty list and a wix section
CrossMergeLeavesNew ==
    /\ CrossBuild
    /\ pc = "cross_mingw"
    /\ conf.targets = Has(<<>>)
    /\ conf.wix = Has([language |-> Has(<<S_zhCN, S_enUS>>)])
    /\ disk.confJson.val.wix = conf.wix

\* the configuration step of the cross build has written tauri.conf.json
CrossMerged == CrossBuild /\ Occurs(Ev("write", "tauri.conf.json"))

\* C34: on the cross path the descriptor written to disk by the configuration
\* step has no wix section, build() having removed it before the merge
C34_CrossPersistedWithoutWix ==
    CrossMerged =>
        /\ ~disk.confJson.val.wix.has
        /\ ~disk.platConf["windows"].val.wix.has

\* what does hold: the section written is never the descriptor's own with its
\* own language list, but the one mergeTauriConfig makes, or the own one refilled
CrossPersistedWixIsDefault ==
    CrossMerged =>
        /\ disk.confJson.val.wix.has
        /\ disk.confJson.val.wix.val.language = Has(<<S_zhCN, S_enUS>>)

\* the descriptor came with a wix section; what was written has the default one
CrossPersistedWix ==
    /\ CrossMerged
    /\ pc = "cross_mingw"
    /\ conf.wix = Has(WixEnUS)
    /\ disk.confJson.val.wix = Has([language |-> Has(<<S_zhCN, S_enUS>>)])

\* WinBuilder.prepare has returned normally
PrepareReturned == call = "prepare" /\ pc = "prepared" /\ exit = Running

\* C35: when prepare returns normally every probe its path requires holds in
\* the environment: Rust and MSVC on a Windows host, Rust and the Windows GNU
\* target elsewhere, also after a Rust installation the user accepted
C35_PreparedMeansProbesHold ==
    PrepareReturned =>
        /\ checkRustInstalled(tools)
        /\ IsWin(host) => checkMSVCInstalled(IsWin(host), tools)
        /\ ~IsWin(host) => checkRustWindowsGnuTarget(tools)

\* what does hold: the second probe of each path, and Rust unless it was
\* installed on the way
PreparedProbesButRust ==
    PrepareReturned =>
        /\ checkRustInstalled(tools) \/ Occurs(Ev("install", "rust"))
        /\ IsWin(host) => checkMSVCInstalled(IsWin(host), tools)
        /\ ~IsWin(host) => checkRustWindowsGnuTarget(tools)

\* prepare returned on a Windows host after the installation, and rustc is
\* still not found
PreparedWithoutRust ==
    /\ PrepareReturned
    /\ IsWin(host)
    /\ Occurs(Ev("spawn", installRustCommand(TRUE)))
    /\ ~checkRustInstalled(tools)

\* call i of the concurrent run read tauri.conf.json back, parsed it and found
\* its own name in it
VerifiedName(i) ==
    /\ loc[i].readBack.has
    /\ loc[i].readBack.val.productName = opts[i].name

\* C36: on the native path the external build is invoked only if the
\* tauri.conf.json just written, read back, has the requested name as
\* productName; otherwise build() throws and no external build runs
C36_BuildOnlyAfterVerifiedName ==
    (call = "concurrent" /\ IsWin(host))
        => \A i \in Procs :
              /\ (pc[i] = "invoke" \/ loc[i].built) => (VerifiedName(i) /\ ~loc[i].failed)
              /\ (pc[i] = "done" /\ ~VerifiedName(i)) => (loc[i].failed /\ ~loc[i].built)

\* one call read back the other's name and threw without building, the other
\* call built
C36_Witness ==
    /\ ConcEnded
    /\ IsWin(host)
    /\ \E i, j \in Procs :
          /\ j # i
          /\ loc[i].readBack.has
          /\ loc[i].readBack.val.productName = ConcName(j)
          /\ loc[i].failed
          /\ ~loc[i].built
          /\ loc[j].built

\* one call read back a file the two writes had left unparsable and threw
C36_WitnessTorn ==
    /\ ConcEnded
    /\ IsWin(host)
    /\ "tauri.conf.json" \in disk.torn
    /\ \E i \in Procs :
          /\ ~loc[i].readBack.has
          /\ loc[i].failed
          /\ ~loc[i].built

====
